---- MODULE Spec2Model ----
(***************************************************************************)
(* Persistence of the CRDT project document of quill-writer: the Yjs       *)
(* document (lib/project/crdt/yjs-doc), its snapshot file yjs-doc.bin, its *)
(* operation log oplog.jsonl, the checkpoint that folds the log into the   *)
(* snapshot, and the replay of the log at load time.                       *)
(*                                                                         *)
(* A Yjs document is modelled by its struct store (per client, the items   *)
(* the client created, indexed by clock), its delete set, and the structs  *)
(* and deletions that wait for a missing dependency.  An update is a set   *)
(* of items plus a delete set.  Every item has length 1.                   *)
(***************************************************************************)
EXTENDS Integers, Sequences, FiniteSets, TLC

\* ------------------------------------------------------------------------
\* Bounds of the model
\* ------------------------------------------------------------------------
\* number of logical mutations made on the open document
MaxMut == 2
\* appendToOplog calls that may be in flight at the same time
MaxInflight == 2
\* saveCrdtProject / createCheckpoint calls started
MaxCheckpoints == 1
\* loadCrdtProject calls on the folder of the folder specification
MaxLoads == 2

\* ------------------------------------------------------------------------
\* Program constants
\* ------------------------------------------------------------------------
\* saveCrdtProject(..., opCount = 0, checkpointInterval = 100)
checkpointInterval == 100

\* ------------------------------------------------------------------------
\* Value universes
\* ------------------------------------------------------------------------
\* client 1 is the Y.Doc made by createCrdtProject; the others are later
\* Y.Doc instances (every new Y.Doc() draws a fresh clientID)
Clients == 1..(MaxLoads + 1)
Paths == {"x.md", "y.md"}
Tags == {"foo", "bar"}
\* key of the items of a sequence type (Y.Text, Y.Array): they have no parentSub
SeqKey == ""
\* the null id (no origin) and the id standing for the top-level type "project"
NoId == <<0, 0>>
RootId == <<0, 1>>

VARIABLES
    \* main specification: one open project
    ydoc,       \* the in-memory Y.Doc returned by createCrdtProject
    snapFile,   \* content of yjs-doc.bin
    oplog,      \* oplog.jsonl: [exists, lines]
    appends,    \* appendToOplog calls in flight: set of [line, pc, cur]
    cp,         \* saveCrdtProject / createCheckpoint call: [pc, enc, opCount],
                \* and as history doc, the document when it was encoded,
                \* and logAfter, the oplog file as clearOplog left it
    emitted,    \* history: the lines built by the oplog observer, in order
    nMut,       \* history: number of logical mutations made
    nCp,        \* history: number of checkpointing calls started
    \* replay specification: an oplog file replayed into a document
    rauthor,    \* the document whose updates are logged
    rfile,      \* oplog.jsonl: [exists, lines]
    rdoc,       \* the document replayOplog is applied to
    rcount,     \* the count the last replayOplog returned
    rseen,      \* history: the lines of the file at the last replayOplog
    rheard,     \* history: the update events of the last replayOplog that
                \* reached the handler of setupOplogObserver
    nReplay,    \* history: number of replayOplog calls
    \* merge specification: two documents loaded from the same snapshot
    rep,        \* the Y.Doc of each instance
    out,        \* per instance, the updates it emitted
    got,        \* per instance, the updates of the other it has applied
    \* folder specification: a project folder created, loaded and saved
    mf,         \* manifest.json: [exists, json, obj]
    fsnap,      \* yjs-doc.bin
    foplog,     \* oplog.jsonl: [exists, lines]
    sess,       \* the result of the last createCrdtProject / loadCrdtProject
    created,    \* history: the docId createCrdtProject returned ("" before)
    nDocs,      \* history: number of Y.Doc instances made so far
    nLogged,    \* history: number of logged mutations
    \* initialize specification: initializeYjsDoc on documents with fields
    idoc,       \* the document
    ibefore,    \* history: the document before the last initializeYjsDoc
    nInit,      \* history: consecutive initializeYjsDoc calls
    \* reconciler specification: syncBlocksWithFilesystem
    disk,       \* the content files on disk
    proj,       \* the blocks of the project the caller holds
    res,        \* the last result: [blocks, added, removed], with the inputs
                \* and as history n, the number of calls
    prev,       \* history: the result before the last one
    \* sync specification: one SyncService
    sv,         \* its config.serverUrl, state, pendingUpdates and timer, and
                \* as history op, the last operation, and destroyed
    sinceFlush, \* history: the updates queued since the last successful flush
    flushed,    \* history: the entries the successful flushes built, in order
    submitted,  \* history: the updates given to queueUpdate, in order
    \* migration specification: migrateToCrdtFormat on a legacy project
    \* folder (with mf, fsnap, foplog and sess of the folder specification)
    legacy,     \* the legacy project given to migrateToCrdtFormat
    gdisk,      \* the content files of the folder: path -> content
    mig,        \* the call: [pc, queue] and its result, and as history the
                \* disk at the start and the outcome of each file move
    \* auto-saver specification: one createAutoSaver
    sa,         \* pendingContent, timeoutId, isSaving, the write in flight
                \* and the file, and as history the save() calls
    \* watcher specification: one createFileWatcher
    fw,         \* isRunning, timeoutId ("null", or the id of a timer that is
                \* "live" or has "fired"), lastSnapshot, orphans (the live
                \* timers timeoutId does not name), the start() and poll()
                \* calls in flight, and as history stopped (stop() with no
                \* later start()) and heard (onChanges calls since stop())
    wfiles      \* lastModified of each content file (0: no such file)

mainVars == <<ydoc, snapFile, oplog, appends, cp, emitted, nMut, nCp>>
replayVars == <<rauthor, rfile, rdoc, rcount, rseen, rheard, nReplay>>
mergeVars == <<rep, out, got>>
folderVars == <<mf, fsnap, foplog, sess, created, nDocs, nLogged>>
fieldVars == <<idoc, ibefore, nInit>>
reconcileVars == <<disk, proj, res, prev>>
syncVars == <<sv, sinceFlush, flushed, submitted>>
migrateVars == <<legacy, gdisk, mig>>
saverVars == <<sa>>
watcherVars == <<fw, wfiles>>
\* the variables of the specifications of migration, auto-saver and watcher
lateVars == <<migrateVars, saverVars, watcherVars>>
vars == <<mainVars, replayVars, mergeVars, folderVars, fieldVars, reconcileVars, syncVars,
          lateVars>>
\* the variables the main specification leaves alone
notMain == <<replayVars, mergeVars, folderVars, fieldVars, reconcileVars, syncVars, lateVars>>
\* the variables the replay specification leaves alone
notReplay == <<mainVars, mergeVars, folderVars, fieldVars, reconcileVars, syncVars, lateVars>>
\* the variables the merge specification leaves alone
notMerge == <<mainVars, replayVars, folderVars, fieldVars, reconcileVars, syncVars, lateVars>>
\* the variables the folder specification leaves alone
notFolder == <<mainVars, replayVars, mergeVars, fieldVars, reconcileVars, syncVars, lateVars>>
\* the variables the initialize specification leaves alone
notField == <<mainVars, replayVars, mergeVars, folderVars, reconcileVars, syncVars, lateVars>>
\* the variables the reconciler specification leaves alone
notReconcile == <<mainVars, replayVars, mergeVars, folderVars, fieldVars, syncVars, lateVars>>
\* the variables the sync specification leaves alone
notSync == <<mainVars, replayVars, mergeVars, folderVars, fieldVars, reconcileVars, lateVars>>
\* the variables the migration specification leaves alone
notMigrate == <<mainVars, replayVars, mergeVars, fieldVars, reconcileVars, syncVars,
                saverVars, watcherVars>>
\* the variables the auto-saver specification leaves alone
notSaver == <<mainVars, replayVars, mergeVars, folderVars, fieldVars, reconcileVars, syncVars,
              migrateVars, watcherVars>>
\* the variables the watcher specification leaves alone
notWatcher == <<mainVars, replayVars, mergeVars, folderVars, fieldVars, reconcileVars,
                syncVars, migrateVars, saverVars>>

\* ------------------------------------------------------------------------
\* Yjs document
\* ------------------------------------------------------------------------
Range(s) == {s[i] : i \in 1..Len(s)}

EmptyDoc ==
    [store |-> [c \in Clients |-> <<>>], ds |-> {}, pending |-> {}, pendingDs |-> {}]

\* all integrated items of a document
Items(d) == UNION {Range(d.store[c]) : c \in Clients}

\* the struct store holds the item with this id (state vector test)
Has(store, id) == id[1] \in Clients /\ id[2] < Len(store[id[1]])

ItemById(d, id) == d.store[id[1]][id[2] + 1]

\* the id the next item created by client c gets
NextId(d, c) == <<c, Len(d.store[c])>>

\* Last item of the chain of a map key.  Every map item is inserted after the
\* then-last item of its key (origin) with no right origin, so the chain is
\* the preorder of the origin tree with siblings in ascending client order;
\* its last element is found by following the highest client.
RECURSIVE Descend(_, _)
Descend(S, cur) ==
    LET ch == {i \in S : i.origin = cur}
    IN  IF ch = {} THEN cur
        ELSE Descend(S, (CHOOSE i \in ch : \A j \in ch : j.id[1] <= i.id[1]).id)

MapLast(d, parent, key) ==
    Descend({i \in Items(d) : i.parent = parent /\ i.key = key}, NoId)

\* id of the visible item of a map key, NoId when the key is absent
MapGetId(d, parent, key) ==
    LET l == MapLast(d, parent, key)
    IN  IF l = NoId \/ l \in d.ds THEN NoId ELSE l

MapHas(d, parent, key) == MapGetId(d, parent, key) # NoId

MapGet(d, parent, key) == ItemById(d, MapGetId(d, parent, key)).val

\* keys with a visible entry in the map whose type item is parent
MapKeys(d, parent) ==
    {k \in {i.key : i \in {j \in Items(d) : j.parent = parent}} : MapHas(d, parent, k)}

\* visible items of a sequence type
SeqVisible(d, parent) ==
    {i \in Items(d) : i.parent = parent /\ i.key = SeqKey /\ i.id \notin d.ds}

NoUpdate == [wf |-> TRUE, structs |-> {}, ds |-> {}]

\* an update is emitted only for a transaction that changed something
HasContent(u) == u.structs # {} \/ u.ds # {}

\* Y.Map.set(key, val) as one transaction: [doc, update]
TxMapSet(d, c, parent, key, val) ==
    LET left == MapLast(d, parent, key)
        item == [id |-> NextId(d, c), parent |-> parent, key |-> key,
                 val |-> val, origin |-> left]
        del  == IF left # NoId /\ left \notin d.ds THEN {left} ELSE {}
    IN  [doc |-> [d EXCEPT !.store[c] = Append(@, item), !.ds = @ \cup del],
         update |-> [wf |-> TRUE, structs |-> {item}, ds |-> del]]

\* Y.Map.set(key, ytext) where ytext = new Y.Text() with text inserted
\* before it is integrated: the type item and its content item are
\* created in the same transaction
TxMapSetText(d, c, parent, key, text) ==
    LET r    == TxMapSet(d, c, parent, key, "YText")
        tid  == NextId(d, c)
        item == [id |-> NextId(r.doc, c), parent |-> tid, key |-> SeqKey,
                 val |-> text, origin |-> NoId]
    IN  [doc |-> [r.doc EXCEPT !.store[c] = Append(@, item)],
         update |-> [r.update EXCEPT !.structs = @ \cup {item}]]

\* Y.Map.clear()
TxMapClear(d, parent) ==
    LET del == {MapGetId(d, parent, k) : k \in MapKeys(d, parent)}
    IN  [doc |-> [d EXCEPT !.ds = @ \cup del],
         update |-> [wf |-> TRUE, structs |-> {}, ds |-> del]]

\* ytext.delete(0, ytext.length)
TxSeqDeleteAll(d, parent) ==
    LET del == {i.id : i \in SeqVisible(d, parent)}
    IN  [doc |-> [d EXCEPT !.ds = @ \cup del],
         update |-> [wf |-> TRUE, structs |-> {}, ds |-> del]]

\* ytext.insert(0, text)
TxSeqInsert0(d, c, parent, text) ==
    LET item == [id |-> NextId(d, c), parent |-> parent, key |-> SeqKey,
                 val |-> text, origin |-> NoId]
    IN  [doc |-> [d EXCEPT !.store[c] = Append(@, item)],
         update |-> [wf |-> TRUE, structs |-> {item}, ds |-> {}]]

\* ------------------------------------------------------------------------
\* Y.applyUpdate
\* ------------------------------------------------------------------------
\* the dependencies of an item (its origin and its parent type) are integrated
DepsOk(store, i) ==
    /\ i.origin = NoId \/ Has(store, i.origin)
    /\ i.parent = RootId \/ Has(store, i.parent)

\* a variant that integrates a struct again although the store has it
CanIntegrateNoSkip(store, i) ==
    i.id[2] <= Len(store[i.id[1]]) /\ DepsOk(store, i)

\* a struct is integrated when it is the next one of its client and its
\* dependencies are there; a struct whose clock is below the client's state
\* is already known and is skipped
CanIntegrate(store, i) ==
    i.id[2] = Len(store[i.id[1]]) /\ DepsOk(store, i)

\* a variant that forgets the structs it could not integrate
PendingStructsDropped(store, pool) == {}

\* the structs that wait for a missing struct are kept and tried again
\* with the next update
PendingStructs(store, pool) == {i \in pool : ~Has(store, i.id)}

RECURSIVE IntegrateStructs(_, _)
IntegrateStructs(store, pool) ==
    LET ready == {i \in pool : CanIntegrate(store, i)}
    IN  IF ready = {}
        THEN [store |-> store, rest |-> PendingStructs(store, pool)]
        ELSE LET i == CHOOSE j \in ready : TRUE
             IN  IntegrateStructs([store EXCEPT ![i.id[1]] = Append(@, i)], pool \ {i})

\* Y.applyUpdate(ydoc, binary): [ok, doc]; an update that cannot be decoded
\* throws and leaves the document as it was
applyUpdate(d, u) ==
    IF ~u.wf THEN [ok |-> FALSE, doc |-> d]
    ELSE LET r   == IntegrateStructs(d.store, d.pending \cup u.structs)
             dsn == d.pendingDs \cup u.ds
             app == {id \in dsn : Has(r.store, id)}
         IN  [ok |-> TRUE,
              doc |-> [store |-> r.store, ds |-> d.ds \cup app,
                       pending |-> r.rest, pendingDs |-> dsn \ app]]

\* a variant that leaves the deletions out of the encoded state
encodeStateAsUpdateNoDs(d) ==
    [wf |-> TRUE, structs |-> Items(d) \cup d.pending, ds |-> {}]

\* Y.encodeStateAsUpdate(ydoc)
encodeStateAsUpdate(d) ==
    [wf |-> TRUE, structs |-> Items(d) \cup d.pending, ds |-> d.ds \cup d.pendingDs]

\* btoa(String.fromCharCode(...update)): the base64 text of the bytes
Btoa(u) == [b64 |-> TRUE, bytes |-> u]

\* Uint8Array.from(atob(base64), ...): [ok, bytes]; atob throws on text that
\* is not base64
Atob(s) == IF s.b64 THEN [ok |-> TRUE, bytes |-> s.bytes]
           ELSE [ok |-> FALSE, bytes |-> [wf |-> FALSE]]

\* ------------------------------------------------------------------------
\* Project document
\* ------------------------------------------------------------------------
\* the number 0 as a value of the project map
Zero == "0"
\* the values of the model that are falsy in "if (!map.get(key))"
FalsyValues == {Zero, ""}

\* !map.get(key): the key is absent or its value is falsy
Falsy(d, key) == ~MapHas(d, RootId, key) \/ MapGet(d, RootId, key) \in FalsyValues

InitText(d, c, key, text) ==
    IF Falsy(d, key) THEN TxMapSetText(d, c, RootId, key, text).doc ELSE d

InitKey(d, c, key, val) ==
    IF Falsy(d, key) THEN TxMapSet(d, c, RootId, key, val).doc ELSE d

initializeYjsDoc(d, c, projectName, projectId) ==
    LET d1 == InitText(d, c, "name", projectName)
        d2 == InitText(d1, c, "projectId", projectId)
        d3 == InitKey(d2, c, "createdAt", "now")
        d4 == InitKey(d3, c, "updatedAt", "now")
        d5 == InitKey(d4, c, "blocks", "YMap")
        d6 == InitKey(d5, c, "characters", "YArray")
        d7 == InitKey(d6, c, "settings", "YMap")
    IN  InitKey(d7, c, "arrangementTracks", "YArray")

createYjsDoc(c, projectName, projectId) ==
    initializeYjsDoc(EmptyDoc, c, projectName, projectId)

\* the plain value of a scalar key of the project map ("" when absent)
Scalar(d, key) == IF MapHas(d, RootId, key) THEN MapGet(d, RootId, key) ELSE ""

\* the text of a Y.Text key, or the elements of a Y.Array key: its visible
\* fragments
TextOf(d, key) ==
    IF MapHas(d, RootId, key)
    THEN {i.val : i \in SeqVisible(d, MapGetId(d, RootId, key))}
    ELSE {}

\* the entries of a Y.Map key as pairs <<key, value>>
EntriesOf(d, key) ==
    IF MapHas(d, RootId, key)
    THEN LET m == MapGetId(d, RootId, key)
         IN  {<<k, MapGet(d, m, k)>> : k \in MapKeys(d, m)}
    ELSE {}

\* what yjsDocToQuillProject reads out of the document
yjsDocToQuillProject(d) ==
    [name |-> TextOf(d, "name"), projectId |-> TextOf(d, "projectId"),
     createdAt |-> Scalar(d, "createdAt"), updatedAt |-> Scalar(d, "updatedAt"),
     blocks |-> EntriesOf(d, "blocks"), settings |-> EntriesOf(d, "settings"),
     characters |-> TextOf(d, "characters"),
     arrangementTracks |-> TextOf(d, "arrangementTracks")]

\* the integrated state of a document
DocState(d) == [store |-> d.store, ds |-> d.ds]

\* ------------------------------------------------------------------------
\* Files of the project folder
\* ------------------------------------------------------------------------
\* getClientId(): the id of this device kept in localStorage
DeviceId == "client-1"

NoText == [b64 |-> FALSE, bytes |-> NoUpdate]
NoFile == [exists |-> FALSE, text |-> NoText]
NoOplog == [exists |-> FALSE, lines |-> <<>>]

\* serializeOplogEntry(entry) + "\n": one line of oplog.jsonl
serializeOplogEntry(entry) == [json |-> TRUE, blank |-> FALSE, entry |-> entry]

\* the line appendToOplog builds for an update
OplogLine(update) ==
    serializeOplogEntry([clientId |-> DeviceId, update |-> Btoa(update)])

\* parseOplogEntry(line): null for a line that is empty after trim or is not JSON
parseOplogEntry(line) ==
    IF line.blank \/ ~line.json THEN [ok |-> FALSE, entry |-> line.entry]
    ELSE [ok |-> TRUE, entry |-> line.entry]

\* a variant of the replay loop that gives up at the first bad line
OnBadLineAbort(rest) == <<>>

\* the replay loop on a line it cannot use: continue with the next line
OnBadLine(rest) == rest

\* the for loop of replayOplog: [doc, count]
RECURSIVE ReplayLines(_, _, _)
ReplayLines(lines, d, count) ==
    IF lines = <<>> THEN [doc |-> d, count |-> count]
    ELSE LET e == parseOplogEntry(Head(lines))
             b == Atob(e.entry.update)
             r == applyUpdate(d, b.bytes)
         IN  IF ~e.ok THEN ReplayLines(OnBadLine(Tail(lines)), d, count)
             ELSE IF ~b.ok \/ ~r.ok THEN ReplayLines(OnBadLine(Tail(lines)), d, count)
             ELSE ReplayLines(Tail(lines), r.doc, count + 1)

\* replayOplog(directoryHandle, ydoc): [doc, count]
replayOplog(f, d) ==
    IF ~f.exists THEN [doc |-> d, count |-> 0]
    ELSE ReplayLines(SelectSeq(f.lines, LAMBDA l : ~(l.blank /\ ~l.json)), d, 0)

\* the "update" events a document emits during the for loop of replayOplog:
\* one for each applied entry that changes it, with the origin given to
\* Y.applyUpdate
RECURSIVE ReplayEvents(_, _)
ReplayEvents(lines, d) ==
    IF lines = <<>> THEN <<>>
    ELSE LET e == parseOplogEntry(Head(lines))
             b == Atob(e.entry.update)
             r == applyUpdate(d, b.bytes)
             u == [wf |-> TRUE, structs |-> Items(r.doc) \ Items(d),
                   ds |-> r.doc.ds \ d.ds]
         IN  IF ~e.ok \/ ~b.ok \/ ~r.ok THEN ReplayEvents(OnBadLine(Tail(lines)), d)
             ELSE IF ~HasContent(u) THEN ReplayEvents(Tail(lines), r.doc)
             ELSE <<[update |-> u, origin |-> "oplog-replay"]>>
                      \o ReplayEvents(Tail(lines), r.doc)

\* a variant of the handler that logs every update
OplogObserverLogAll(f, update, origin) ==
    [exists |-> TRUE, lines |-> Append(f.lines, OplogLine(update))]

\* the handler of setupOplogObserver on an "update" event: the oplog file
\* once its appendToOplog has run
OplogObserver(f, update, origin) ==
    IF origin = "oplog-replay" THEN f
    ELSE [exists |-> TRUE, lines |-> Append(f.lines, OplogLine(update))]

\* the handler run on a sequence of events
RECURSIVE Observed(_, _)
Observed(f, events) ==
    IF events = <<>> THEN f
    ELSE Observed(OplogObserver(f, Head(events).update, Head(events).origin),
                  Tail(events))

\* loadSnapshot(directoryHandle, ydoc): [loaded, doc]
loadSnapshot(f, d) ==
    IF ~f.exists THEN [loaded |-> FALSE, doc |-> d]
    ELSE LET b == Atob(f.text)
             r == applyUpdate(d, b.bytes)
         IN  IF b.ok /\ r.ok THEN [loaded |-> TRUE, doc |-> r.doc]
             ELSE [loaded |-> FALSE, doc |-> d]

\* loadYjsDoc(directoryHandle, projectName, projectId) run by a new Y.Doc
\* with client id c, on the files as they are now
loadYjsDoc(snap, log, c, projectName, projectId) ==
    LET s  == loadSnapshot(snap, EmptyDoc)
        d1 == IF s.loaded THEN s.doc
              ELSE initializeYjsDoc(s.doc, c, projectName, projectId)
    IN  replayOplog(log, d1).doc

\* ------------------------------------------------------------------------
\* Manifest
\* ------------------------------------------------------------------------
CRDT_FORMAT_VERSION == "1.0.0"

ManifestFields == {"name", "formatVersion", "createdAt", "modifiedAt", "docId"}

\* a parsed JSON value: whether it is an object, its fields, and the fields
\* that are missing or not strings
createManifest(name, docId) ==
    [isObject |-> TRUE, name |-> name, formatVersion |-> CRDT_FORMAT_VERSION,
     createdAt |-> "t0", modifiedAt |-> "t0", docId |-> docId, notString |-> {}]

\* a variant that gives the manifest a docId of its own
updateManifestTimestampNewId(manifest) ==
    [manifest EXCEPT !.modifiedAt = "t1", !.docId = "doc-0"]

updateManifestTimestamp(manifest) == [manifest EXCEPT !.modifiedAt = "t1"]

\* a variant that accepts any format version
validateManifestAnyVersion(m) ==
    m.isObject /\ m.notString \cap ManifestFields = {}

validateManifest(m) ==
    /\ m.isObject
    /\ "name" \notin m.notString
    /\ "formatVersion" \notin m.notString
    /\ "createdAt" \notin m.notString
    /\ "modifiedAt" \notin m.notString
    /\ "docId" \notin m.notString
    /\ m.formatVersion = CRDT_FORMAT_VERSION

NullManifest == [createManifest("", "") EXCEPT !.isObject = FALSE]
NoManifest == [exists |-> FALSE, json |-> FALSE, obj |-> NullManifest]

\* saveManifest: the file writeTextFile leaves
saveManifest(manifest) ==
    [exists |-> TRUE, json |-> TRUE, obj |-> updateManifestTimestamp(manifest)]

\* loadManifest: [ok, manifest]; null when the file cannot be read, is not
\* JSON or does not validate
loadManifest(f) ==
    IF ~f.exists \/ ~f.json THEN [ok |-> FALSE, manifest |-> NullManifest]
    ELSE IF ~validateManifest(f.obj) THEN [ok |-> FALSE, manifest |-> NullManifest]
    ELSE [ok |-> TRUE, manifest |-> f.obj]

\* ------------------------------------------------------------------------
\* The open project
\* ------------------------------------------------------------------------
\* client id of the Y.Doc made by createCrdtProject
Me == 1
\* client id of a Y.Doc made by a later load of the folder
Loader == 2

ProjectName == "Novel1"
DocId == "doc-1"

\* the variables of the replay specification when it is not run
ReplayIdle ==
    /\ rauthor = EmptyDoc /\ rfile = NoOplog /\ rdoc = EmptyDoc
    /\ rcount = 0 /\ rseen = <<>> /\ rheard = <<>> /\ nReplay = 0

\* the variables of the merge specification when it is not run
MergeIdle ==
    /\ rep = <<>> /\ out = <<>> /\ got = <<>>

\* the variables of the main specification when it is not run
MainIdle ==
    /\ ydoc = EmptyDoc /\ snapFile = NoFile /\ oplog = NoOplog /\ appends = {}
    /\ cp = [pc |-> "idle", enc |-> NoUpdate, opCount |-> 0, doc |-> EmptyDoc,
            logAfter |-> NoOplog]
    /\ emitted = <<>> /\ nMut = 0 /\ nCp = 0

\* no createCrdtProject / loadCrdtProject has returned or thrown yet
NoSession ==
    [pc |-> "none", op |-> "", manifest |-> NullManifest, doc |-> EmptyDoc,
     client |-> 0, observer |-> FALSE, error |-> "", mfAtLoad |-> NoManifest,
     snapAtLoad |-> NoFile, logAtLoad |-> NoOplog, docAtLoad |-> EmptyDoc]

\* the variables of the folder specification when it is not run
FolderIdle ==
    /\ mf = NoManifest /\ fsnap = NoFile /\ foplog = NoOplog
    /\ sess = NoSession /\ created = "" /\ nDocs = 0 /\ nLogged = 0

\* the variables of the initialize specification when it is not run
FieldIdle ==
    /\ idoc = EmptyDoc /\ ibefore = EmptyDoc /\ nInit = 0

\* a blocks record with no entry
NoBlocks == [p \in {} |-> [id |-> <<0, "">>, tags |-> {}, characterIds |-> {}]]
NoResult ==
    [called |-> FALSE, blocks |-> NoBlocks, added |-> <<>>, removed |-> <<>>,
     filePaths |-> <<>>, input |-> NoBlocks, n |-> 0]

\* the variables of the reconciler specification when it is not run
ReconcileIdle ==
    /\ disk = {} /\ proj = NoBlocks /\ res = NoResult /\ prev = NoResult

\* a SyncService right after its constructor, online, without serverUrl
NewService ==
    [serverUrl |-> FALSE, isSyncing |-> FALSE, isOnline |-> TRUE, lastSyncAt |-> 0,
     pendingOps |-> 0, error |-> FALSE, pendingUpdates |-> <<>>, syncInterval |-> "null",
     op |-> "new", destroyed |-> FALSE, tried |-> FALSE]

\* the variables of the sync specification when it is not run
SyncIdle ==
    /\ sv = NewService /\ sinceFlush = <<>> /\ flushed = <<>> /\ submitted = <<>>

\* no legacy project
NoLegacy ==
    [name |-> "", projectId |-> "", createdAt |-> "", updatedAt |-> "", blocks |-> NoBlocks,
     characters |-> <<>>, settings |-> <<>>, arrangementTracks |-> <<>>]
NoDisk == [p \in {} |-> ""]
\* migrateToCrdtFormat not called
NoMigration ==
    [pc |-> "none", queue |-> <<>>, moves |-> <<>>, disk0 |-> NoDisk, rec |-> NoResult]

\* the variables of the migration specification when it is not run
MigrateIdle == legacy = NoLegacy /\ gdisk = NoDisk /\ mig = NoMigration

\* no content: pendingContent null, no write in flight, the file as it was
NoContent == 0
\* the auto-saver createAutoSaver returns
NewSaver ==
    [pendingContent |-> NoContent, timeoutId |-> FALSE, isSaving |-> FALSE,
     writing |-> NoContent, file |-> NoContent, latest |-> NoContent, op |-> "new",
     dropped |-> FALSE]

\* the variables of the auto-saver specification when it is not run
SaverIdle == sa = NewSaver

\* the watcher createFileWatcher returns
NewWatcher ==
    [isRunning |-> FALSE, timeoutId |-> "null", orphans |-> 0,
     lastSnapshot |-> [p \in {} |-> 0], starting |-> 0, polling |-> 0,
     heard |-> 0, stopped |-> FALSE, nStarts |-> 0]

\* the variables of the watcher specification when it is not run
WatcherIdle == fw = NewWatcher /\ wfiles = [p \in {} |-> 0]

LateIdle == MigrateIdle /\ SaverIdle /\ WatcherIdle

IdlePcs == {"idle", "done", "snapFailed", "clearFailed", "saveFailed"}

Init ==
    /\ ydoc = createYjsDoc(Me, ProjectName, DocId)
    /\ snapFile = [exists |-> TRUE, text |-> Btoa(encodeStateAsUpdate(ydoc))]
    /\ oplog = NoOplog
    /\ appends = {}
    /\ cp = [pc |-> "idle", enc |-> NoUpdate, opCount |-> 0, doc |-> EmptyDoc,
            logAfter |-> NoOplog]
    /\ emitted = <<>>
    /\ nMut = 0
    /\ nCp = 0
    /\ ReplayIdle
    /\ MergeIdle
    /\ FolderIdle /\ FieldIdle /\ ReconcileIdle /\ SyncIdle /\ LateIdle

\* setupOplogObserver's handler, called once per emitted update: it builds
\* the line and starts appendToOplog, which first awaits fileExists; an
\* operation that changes nothing emits no update and is no mutation
Emit(d, updates) ==
    LET us == SelectSeq(updates, HasContent)
        ls == [i \in 1..Len(us) |-> OplogLine(us[i])]
    IN  /\ us # <<>>
        /\ Cardinality(appends) + Len(us) <= MaxInflight
        /\ ydoc' = d
        /\ appends' = appends \cup
               {[line |-> ls[i], pc |-> "exists", cur |-> <<>>] : i \in 1..Len(ls)}
        /\ emitted' = emitted \o ls
        /\ nMut' = nMut + 1
        /\ UNCHANGED <<notMain, snapFile, oplog, cp, nCp>>

BlocksId(d) == MapGetId(d, RootId, "blocks")
NameId(d) == MapGetId(d, RootId, "name")

\* blocksMap.set(path, metadata)
UpsertBlock(p, m) ==
    /\ nMut < MaxMut
    /\ LET r == TxMapSet(ydoc, Me, BlocksId(ydoc), p, m)
       IN  Emit(r.doc, <<r.update>>)

\* map.set("updatedAt", value)
SetUpdatedAt(v) ==
    /\ nMut < MaxMut
    /\ LET r == TxMapSet(ydoc, Me, RootId, "updatedAt", v)
       IN  Emit(r.doc, <<r.update>>)

\* nameText.delete(0, nameText.length); nameText.insert(0, name)
SetName(n) ==
    /\ nMut < MaxMut
    /\ LET r1 == TxSeqDeleteAll(ydoc, NameId(ydoc))
           r2 == TxSeqInsert0(r1.doc, Me, NameId(ydoc), n)
       IN  Emit(r2.doc, <<r1.update, r2.update>>)

\* blocksMap.clear(); for each entry blocksMap.set(key, value)
RECURSIVE SetEntries(_, _, _, _)
SetEntries(d, c, entries, updates) ==
    IF entries = <<>> THEN [doc |-> d, updates |-> updates]
    ELSE LET r == TxMapSet(d, c, BlocksId(d), Head(entries)[1], Head(entries)[2])
         IN  SetEntries(r.doc, c, Tail(entries), Append(updates, r.update))

ReplaceBlocks(entries) ==
    /\ nMut < MaxMut
    /\ LET r1 == TxMapClear(ydoc, BlocksId(ydoc))
           r2 == SetEntries(r1.doc, Me, entries, <<r1.update>>)
       IN  Emit(r2.doc, r2.updates)

\* appendToOplog after "await fileExists(OPLOG_FILE)"
AppendExists(a) ==
    /\ a \in appends /\ a.pc = "exists"
    /\ appends' = (appends \ {a}) \cup
          {[a EXCEPT !.pc = IF oplog.exists THEN "read" ELSE "write"]}
    /\ UNCHANGED <<notMain, ydoc, snapFile, oplog, cp, emitted, nMut, nCp>>

\* appendToOplog after "await readTextFile(OPLOG_FILE)"
AppendRead(a) ==
    /\ a \in appends /\ a.pc = "read"
    /\ appends' = (appends \ {a}) \cup {[a EXCEPT !.pc = "write", !.cur = oplog.lines]}
    /\ UNCHANGED <<notMain, ydoc, snapFile, oplog, cp, emitted, nMut, nCp>>

\* appendToOplog: writeTextFile(OPLOG_FILE, current + line), or line alone
AppendWrite(a) ==
    /\ a \in appends /\ a.pc = "write"
    /\ oplog' = [exists |-> TRUE, lines |-> Append(a.cur, a.line)]
    /\ appends' = appends \ {a}
    /\ UNCHANGED <<notMain, ydoc, snapFile, cp, emitted, nMut, nCp>>

\* saveSnapshot up to its await: the state is encoded when it is called
EncodeForSnapshot(opCount) ==
    [pc |-> "snapshot", enc |-> encodeStateAsUpdate(ydoc), opCount |-> opCount,
     doc |-> ydoc, logAfter |-> NoOplog]

\* createCheckpoint(directoryHandle, ydoc) called directly
CreateCheckpoint ==
    /\ cp.pc \in IdlePcs /\ nCp < MaxCheckpoints
    /\ cp' = EncodeForSnapshot(checkpointInterval)
    /\ nCp' = nCp + 1
    /\ UNCHANGED <<notMain, ydoc, snapFile, oplog, appends, emitted, nMut>>

\* saveCrdtProject(..., opCount, checkpointInterval) up to "await saveManifest"
SaveCrdtProject(opCount) ==
    /\ cp.pc \in IdlePcs /\ nCp < MaxCheckpoints
    /\ cp' = [pc |-> "manifest", enc |-> NoUpdate, opCount |-> opCount, doc |-> EmptyDoc,
             logAfter |-> NoOplog]
    /\ nCp' = nCp + 1
    /\ UNCHANGED <<notMain, ydoc, snapFile, oplog, appends, emitted, nMut>>

\* saveManifest resolved: "await saveMetadata"
SaveManifestDone ==
    /\ cp.pc = "manifest"
    /\ cp' = [cp EXCEPT !.pc = "metadata"]
    /\ UNCHANGED <<notMain, ydoc, snapFile, oplog, appends, emitted, nMut, nCp>>

\* saveMetadata resolved: createCheckpoint if opCount >= checkpointInterval
SaveMetadataDone ==
    /\ cp.pc = "metadata"
    /\ cp' = IF cp.opCount >= checkpointInterval THEN EncodeForSnapshot(cp.opCount)
             ELSE [cp EXCEPT !.pc = "done"]
    /\ UNCHANGED <<notMain, ydoc, snapFile, oplog, appends, emitted, nMut, nCp>>

\* writeTextFile of the manifest or of the metadata rejects
SaveFileFail ==
    /\ cp.pc \in {"manifest", "metadata"}
    /\ cp' = [cp EXCEPT !.pc = "saveFailed"]
    /\ UNCHANGED <<notMain, ydoc, snapFile, oplog, appends, emitted, nMut, nCp>>

\* a variant of createCheckpoint that goes on to clearOplog after a failed
\* snapshot write
AfterSnapshotFailureGoOn(c) == [c EXCEPT !.pc = "clear"]

\* createCheckpoint when "await saveSnapshot" rejects: the error propagates
AfterSnapshotFailure(c) == [c EXCEPT !.pc = "snapFailed"]

\* saveSnapshot: writeTextFile(YJS_SNAPSHOT_FILE, base64) resolved
SnapshotWriteOk ==
    /\ cp.pc = "snapshot"
    /\ snapFile' = [exists |-> TRUE, text |-> Btoa(cp.enc)]
    /\ cp' = [cp EXCEPT !.pc = "clear"]
    /\ UNCHANGED <<notMain, ydoc, oplog, appends, emitted, nMut, nCp>>

\* saveSnapshot: writeTextFile rejects, the file is as before
SnapshotWriteFail ==
    /\ cp.pc = "snapshot"
    /\ cp' = AfterSnapshotFailure(cp)
    /\ UNCHANGED <<notMain, ydoc, snapFile, oplog, appends, emitted, nMut, nCp>>

\* a variant of clearOplog that leaves the log as it is
ClearedOplogKeep(f) == f

\* clearOplog: writeTextFile(OPLOG_FILE, "")
ClearedOplog(f) == [exists |-> TRUE, lines |-> <<>>]

ClearOplogOk ==
    /\ cp.pc = "clear"
    /\ oplog' = ClearedOplog(oplog)
    /\ cp' = [cp EXCEPT !.pc = "done", !.logAfter = oplog']
    /\ UNCHANGED <<notMain, ydoc, snapFile, appends, emitted, nMut, nCp>>

\* clearOplog: writeTextFile rejects, the log is as before
ClearOplogFail ==
    /\ cp.pc = "clear"
    /\ cp' = [cp EXCEPT !.pc = "clearFailed"]
    /\ UNCHANGED <<notMain, ydoc, snapFile, oplog, appends, emitted, nMut, nCp>>

\* the blocks given to a replacement: none, or two
ReplaceInputs == {<<>>, << <<"x.md", "foo">>, <<"y.md", "bar">> >>}
OpCounts == {checkpointInterval - 1, checkpointInterval}

Next ==
    \/ \E p \in Paths : UpsertBlock(p, "foo")
    \/ SetUpdatedAt("later")
    \/ SetName("Novel2")
    \/ \E es \in ReplaceInputs : ReplaceBlocks(es)
    \/ \E a \in appends : AppendExists(a)
    \/ \E a \in appends : AppendRead(a)
    \/ \E a \in appends : AppendWrite(a)
    \/ CreateCheckpoint
    \/ \E n \in OpCounts : SaveCrdtProject(n)
    \/ SaveManifestDone
    \/ SaveMetadataDone
    \/ SaveFileFail
    \/ SnapshotWriteOk
    \/ SnapshotWriteFail
    \/ ClearOplogOk
    \/ ClearOplogFail

Spec == Init /\ [][Next]_vars

\* the document a load of the folder would return now
Reloaded == loadYjsDoc(snapFile, oplog, Loader, ProjectName, DocId)

\* no appendToOplog and no checkpoint is in flight
Quiescent == appends = {} /\ cp.pc \in IdlePcs

\* a checkpoint (not only a save of manifest and metadata) ran to its end
CheckpointDone == cp.pc = "done" /\ cp.opCount >= checkpointInterval

\* C1: once every started append and checkpoint has completed, loading the
\* folder (snapshot, then oplog replay) gives the state of the open document.
C1_RoundTripFidelity ==
    Quiescent => yjsDocToQuillProject(Reloaded) = yjsDocToQuillProject(ydoc)

\* C2: when all appends have completed (and nothing cleared the log), the
\* oplog holds exactly one line per emitted update: none lost or overwritten.
C2_AppendsSerialized ==
    (appends = {} /\ nCp = 0) =>
        /\ Len(oplog.lines) = Len(emitted)
        /\ Range(oplog.lines) = Range(emitted)

\* C3: a checkpoint and the append of one mutation, in any interleaving,
\* leave the mutation recoverable once both have completed.
C3_CheckpointAppendRecoverable ==
    (CheckpointDone /\ appends = {} /\ nMut = 1 /\ Len(emitted) = 1) =>
        yjsDocToQuillProject(Reloaded) = yjsDocToQuillProject(ydoc)

\* C4: when createCheckpoint completes the oplog is empty, and loading the
\* new snapshot alone gives the document state the checkpoint was taken of.
C4_CheckpointCorrect ==
    CheckpointDone =>
        /\ cp.logAfter = [exists |-> TRUE, lines |-> <<>>]
        /\ LET d == loadYjsDoc(snapFile, cp.logAfter, Loader, ProjectName, DocId)
           IN  /\ yjsDocToQuillProject(d) = yjsDocToQuillProject(cp.doc)
               /\ DocState(d) = DocState(cp.doc)

C4_Witness ==
    /\ CheckpointDone /\ oplog = cp.logAfter /\ oplog.lines = <<>>
    /\ emitted # <<>>
    /\ yjsDocToQuillProject(cp.doc).blocks # {}
    /\ yjsDocToQuillProject(Reloaded) = yjsDocToQuillProject(cp.doc)

\* C5: createCheckpoint reaches clearOplog only with the snapshot of this
\* checkpoint written; when saveSnapshot fails the call ends without
\* clearOplog and the oplog and snapshot files are as before.
C5_CheckpointOrdering ==
    [][/\ (cp'.pc = "clear" /\ cp.pc # "clear") =>
              (cp.pc = "snapshot" /\ snapFile' = [exists |-> TRUE, text |-> Btoa(cp.enc)])
       /\ (cp.pc = "clear" /\ cp'.pc = "done") =>
              snapFile = [exists |-> TRUE, text |-> Btoa(cp.enc)]
       /\ (cp.pc = "snapshot" /\ cp' # cp) => cp'.pc \in {"clear", "snapFailed"}
       /\ (cp.pc = "snapshot" /\ cp'.pc = "snapFailed") =>
              (oplog' = oplog /\ snapFile' = snapFile)
       /\ (cp.pc = "snapFailed" /\ cp' # cp) => cp'.pc \in {"manifest", "snapshot"} /\ oplog' = oplog
      ]_vars

C5_Witness ==
    /\ cp.pc = "snapFailed"
    /\ oplog.lines # <<>>
    /\ snapFile.text # Btoa(cp.enc)

\* C6: between the snapshot write and the clearing of the oplog, and after a
\* failed clearing, the new snapshot with the stale oplog replayed on top
\* loads to the state that was checkpointed.
C6_HalfCheckpointSafe ==
    (cp.pc \in {"clear", "clearFailed"} /\ ydoc = cp.doc) =>
        /\ DocState(Reloaded) = DocState(cp.doc)
        /\ yjsDocToQuillProject(Reloaded) = yjsDocToQuillProject(cp.doc)

C6_Witness ==
    /\ cp.pc = "clearFailed" /\ ydoc = cp.doc
    /\ oplog.lines # <<>>
    /\ yjsDocToQuillProject(cp.doc).blocks # {}
    /\ DocState(Reloaded) = DocState(cp.doc)

MaxLines == 2
\* replayOplog calls on the same document (load, then pullUpdates)
MaxReplays == 2

\* lines replayOplog cannot use: an empty line, a line that is not JSON, an
\* entry whose update is not base64, an entry whose bytes are not an update
BlankLine == [json |-> FALSE, blank |-> TRUE,
              entry |-> [clientId |-> DeviceId, update |-> NoText]]
NotJsonLine == [json |-> FALSE, blank |-> FALSE,
                entry |-> [clientId |-> DeviceId, update |-> NoText]]
NotBase64Line == serializeOplogEntry([clientId |-> DeviceId, update |-> NoText])
NotUpdateLine ==
    serializeOplogEntry([clientId |-> DeviceId,
                         update |-> Btoa([wf |-> FALSE, structs |-> {}, ds |-> {}])])
BadLines == {BlankLine, NotJsonLine, NotBase64Line, NotUpdateLine}

InitReplay ==
    /\ rauthor = createYjsDoc(Me, ProjectName, DocId)
    /\ rfile = NoOplog
    /\ rdoc = loadSnapshot([exists |-> TRUE, text |-> Btoa(encodeStateAsUpdate(rauthor))],
                           EmptyDoc).doc
    /\ rcount = 0
    /\ rseen = <<>>
    /\ rheard = <<>>
    /\ nReplay = 0
    /\ MainIdle
    /\ MergeIdle
    /\ FolderIdle /\ FieldIdle /\ ReconcileIdle /\ SyncIdle /\ LateIdle

\* a mutation of the logged document whose appendToOplog runs to its end
\* before anything else happens
Logged(r) ==
    /\ Len(rfile.lines) < MaxLines
    /\ HasContent(r.update)
    /\ rauthor' = r.doc
    /\ rfile' = [exists |-> TRUE, lines |-> Append(rfile.lines, OplogLine(r.update))]
    /\ UNCHANGED <<notReplay, rdoc, rcount, rseen, rheard, nReplay>>

LoggedUpsert(p, m) == Logged(TxMapSet(rauthor, Me, BlocksId(rauthor), p, m))

LoggedClear == Logged(TxMapClear(rauthor, BlocksId(rauthor)))

\* the file is damaged from outside: line i is replaced by an unusable one
DamageLine(i, bad) ==
    /\ i \in 1..Len(rfile.lines)
    /\ rfile.lines[i] \notin BadLines
    /\ rfile' = [rfile EXCEPT !.lines[i] = bad]
    /\ UNCHANGED <<notReplay, rauthor, rdoc, rcount, rseen, rheard, nReplay>>

\* a line of the file is written a second time at its end
RepeatLine(i) ==
    /\ i \in 1..Len(rfile.lines)
    /\ Len(rfile.lines) < MaxLines
    /\ rfile' = [rfile EXCEPT !.lines = Append(@, rfile.lines[i])]
    /\ UNCHANGED <<notReplay, rauthor, rdoc, rcount, rseen, rheard, nReplay>>

\* replayOplog(directoryHandle, ydoc): the first by loadYjsDoc, before
\* setupOplogObserver; the later ones by pullUpdates of a service that has a
\* server, on the document that has the observer attached
Replay ==
    /\ nReplay < MaxReplays
    /\ LET r  == replayOplog(rfile, rdoc)
           ev == IF nReplay = 0 \/ ~rfile.exists THEN <<>>
                 ELSE ReplayEvents(SelectSeq(rfile.lines, LAMBDA l : ~(l.blank /\ ~l.json)),
                                   rdoc)
       IN  /\ rdoc' = r.doc /\ rcount' = r.count
           /\ rheard' = ev
           /\ rfile' = Observed(rfile, ev)
    /\ rseen' = rfile.lines
    /\ nReplay' = nReplay + 1
    /\ UNCHANGED <<notReplay, rauthor>>

NextReplay ==
    \/ \E p \in Paths : LoggedUpsert(p, "foo")
    \/ LoggedClear
    \/ \E i \in 1..MaxLines, bad \in BadLines : DamageLine(i, bad)
    \/ \E i \in 1..MaxLines : RepeatLine(i)
    \/ Replay

SpecReplay == InitReplay /\ [][NextReplay]_vars

\* a line replayOplog can use: JSON, base64, and bytes that decode
GoodLine(l) == l.json /\ ~l.blank /\ l.entry.update.b64 /\ l.entry.update.bytes.wf

\* the updates of the usable lines, in file order
GoodUpdates(lines) ==
    LET g == SelectSeq(lines, GoodLine)
    IN  [i \in 1..Len(g) |-> g[i].entry.update.bytes]

\* applying a sequence of updates in order
RECURSIVE ApplyAll(_, _)
ApplyAll(us, d) ==
    IF us = <<>> THEN d ELSE ApplyAll(Tail(us), applyUpdate(d, Head(us)).doc)

\* C7: replaying the oplog a second time, or applying any one of its
\* entries a second time, leaves the document as after the first time.
C7_ReplayIdempotent ==
    LET once  == replayOplog(rfile, rdoc).doc
        twice == replayOplog(rfile, once).doc
    IN  /\ twice = once
        /\ \A i \in 1..Len(rfile.lines) :
              LET l  == [exists |-> TRUE, lines |-> <<rfile.lines[i]>>]
                  d1 == replayOplog(l, rdoc).doc
              IN  replayOplog(l, d1).doc = d1
        /\ (nReplay > 0 /\ rseen = rfile.lines) => DocState(once) = DocState(rdoc)

C7_Witness ==
    /\ nReplay = 2 /\ rseen = rfile.lines
    /\ \E i \in 1..Len(rseen) : GoodLine(rseen[i])
    /\ yjsDocToQuillProject(rdoc).blocks # {}
    /\ rcount > 0

\* C10: replayOplog skips every unusable line and goes on; the document is
\* the one obtained by applying the usable entries in file order and the
\* count is the number of entries applied.
C10_ReplaySkipsBadLines ==
    /\ LET r == replayOplog(rfile, rdoc)
       IN  /\ r.doc = ApplyAll(GoodUpdates(rfile.lines), rdoc)
           /\ r.count = Len(GoodUpdates(rfile.lines))
    /\ (nReplay = 1 /\ rseen = rfile.lines) => rcount = Len(GoodUpdates(rseen))

C10_Witness ==
    /\ nReplay = 1 /\ rseen = rfile.lines
    /\ \E i, j \in 1..Len(rseen) :
          i < j /\ rseen[i] \in BadLines /\ rseen[i] # BlankLine /\ GoodLine(rseen[j])
    /\ rcount = Len(GoodUpdates(rseen))
    /\ rcount < Len(rseen)
    /\ yjsDocToQuillProject(rdoc).blocks # {}

\* C26: a replayOplog call, by a load or by a pull on the document that has
\* the oplog observer attached, leaves oplog.jsonl as it was.
C26_ReplayNotRelogged == [][nReplay' # nReplay => rfile' = rfile]_vars

\* a pull whose replay changed the observed document
C26_Witness ==
    /\ nReplay = 2 /\ rheard # <<>> /\ rseen = rfile.lines
    /\ \A i \in 1..Len(rheard) : rheard[i].origin = "oplog-replay"
    /\ rcount > 0

\* ------------------------------------------------------------------------
\* Merge specification: two documents loaded from the same snapshot
\* ------------------------------------------------------------------------
\* blocksMap.set calls made by each instance
MaxSets == 2

Replicas == {"A", "B"}
Other(r) == IF r = "A" THEN "B" ELSE "A"
\* the Y.Doc of every instance has its own client id
ClientOf(r) == IF r = "A" THEN 2 ELSE 3
\* the path an instance writes: the two instances write different paths
PathOf(r) == IF r = "A" THEN "x.md" ELSE "y.md"

\* yjs-doc.bin as createCrdtProject wrote it
SharedSnapshot ==
    [exists |-> TRUE,
     text |-> Btoa(encodeStateAsUpdate(createYjsDoc(Me, ProjectName, DocId)))]

InitMerge ==
    /\ rep = [r \in Replicas |-> loadSnapshot(SharedSnapshot, EmptyDoc).doc]
    /\ out = [r \in Replicas |-> <<>>]
    /\ got = [r \in Replicas |-> {}]
    /\ MainIdle
    /\ ReplayIdle
    /\ FolderIdle /\ FieldIdle /\ ReconcileIdle /\ SyncIdle /\ LateIdle

\* instance r: blocksMap.set(path, metadata); the update goes to its oplog
SetBlock(r, m) ==
    /\ Len(out[r]) < MaxSets
    /\ LET t == TxMapSet(rep[r], ClientOf(r), BlocksId(rep[r]), PathOf(r), m)
       IN  /\ rep' = [rep EXCEPT ![r] = t.doc]
           /\ out' = [out EXCEPT ![r] = Append(@, OplogLine(t.update))]
    /\ UNCHANGED <<notMerge, got>>

\* instance r replays one oplog line of the other instance, in any order
ReplayLine(r, i) ==
    /\ i \in 1..Len(out[Other(r)])
    /\ out[Other(r)][i] \notin got[r]
    /\ rep' = [rep EXCEPT ![r] =
                  replayOplog([exists |-> TRUE, lines |-> <<out[Other(r)][i]>>], @).doc]
    /\ got' = [got EXCEPT ![r] = @ \cup {out[Other(r)][i]}]
    /\ UNCHANGED <<notMerge, out>>

\* instance r loads a snapshot the other instance saved: all the updates
\* the other has, grouped into one
LoadSnapshotOfOther(r) ==
    /\ Range(out[Other(r)]) \ got[r] # {}
    /\ rep' = [rep EXCEPT ![r] =
                  loadSnapshot([exists |-> TRUE,
                                text |-> Btoa(encodeStateAsUpdate(rep[Other(r)]))], @).doc]
    /\ got' = [got EXCEPT ![r] = @ \cup Range(out[Other(r)])]
    /\ UNCHANGED <<notMerge, out>>

NextMerge ==
    \/ \E r \in Replicas, m \in Tags : SetBlock(r, m)
    \/ \E r \in Replicas, i \in 1..MaxSets : ReplayLine(r, i)
    \/ \E r \in Replicas : LoadSnapshotOfOther(r)

SpecMerge == InitMerge /\ [][NextMerge]_vars

\* every update of each instance has reached the other
Exchanged == \A r \in Replicas : Range(out[Other(r)]) \subseteq got[r]

BlocksOf(r) == yjsDocToQuillProject(rep[r]).blocks

\* the last value instance r set for its path
LastSet(r) ==
    LET u == out[r][Len(out[r])].entry.update.bytes
    IN  (CHOOSE i \in u.structs : TRUE).val

\* C8: two documents loaded from the same snapshot, one setting path x and
\* the other path y, have the same blocks map holding both entries once
\* their updates are exchanged, in whatever order and grouping.
C8_CommutativeMerge ==
    Exchanged =>
        /\ BlocksOf("A") = BlocksOf("B")
        /\ yjsDocToQuillProject(rep["A"]) = yjsDocToQuillProject(rep["B"])
        /\ \A r \in Replicas :
              out[r] # <<>> => <<PathOf(r), LastSet(r)>> \in BlocksOf("A")

C8_Witness ==
    /\ Exchanged
    /\ \A r \in Replicas : Len(out[r]) = MaxSets
    /\ BlocksOf("A") = {<<"x.md", "foo">>, <<"y.md", "bar">>}
    /\ BlocksOf("B") = BlocksOf("A")

\* ------------------------------------------------------------------------
\* Folder specification: a project folder created, loaded, saved and damaged
\* ------------------------------------------------------------------------
\* blocksMap.set calls made in the folder specification
MaxLogged == 2

\* crypto.randomUUID(): the ids it may return
DocIds == {"doc-1", "doc-2"}

InitFolder ==
    /\ FolderIdle
    /\ MainIdle /\ ReplayIdle /\ MergeIdle /\ FieldIdle /\ ReconcileIdle /\ SyncIdle /\ LateIdle

\* createCrdtProject(directoryHandle, projectName) on an empty folder; when
\* the write of the snapshot rejects it throws with the manifest written
CreateCrdtProject(docId, snapshotOk) ==
    /\ created = "" /\ sess.pc = "none"
    /\ LET manifest == createManifest(ProjectName, docId)
           d == createYjsDoc(Me, ProjectName, docId)
       IN  /\ mf' = saveManifest(manifest)
           /\ IF snapshotOk
              THEN /\ fsnap' = [exists |-> TRUE, text |-> Btoa(encodeStateAsUpdate(d))]
                   /\ sess' = [NoSession EXCEPT !.pc = "open", !.op = "create",
                                                !.manifest = manifest, !.doc = d,
                                                !.client = Me, !.observer = TRUE]
              ELSE /\ fsnap' = fsnap
                   /\ sess' = [NoSession EXCEPT !.pc = "failed", !.op = "create",
                                                !.error = "Failed to write file"]
    /\ created' = docId
    /\ nDocs' = 1
    /\ UNCHANGED <<notFolder, foplog, nLogged>>

\* loadCrdtProject(directoryHandle)
LoadCrdtProject ==
    /\ sess.pc # "open" /\ nDocs <= MaxLoads
    /\ LET m == loadManifest(mf)
           c == nDocs + 1
           d == loadYjsDoc(fsnap, foplog, c, m.manifest.name, m.manifest.docId)
           at == [NoSession EXCEPT !.op = "load", !.mfAtLoad = mf,
                                   !.snapAtLoad = fsnap, !.logAtLoad = foplog]
       IN  IF ~m.ok
           THEN /\ sess' = [at EXCEPT !.pc = "failed",
                                      !.error = "Invalid or missing manifest"]
                /\ nDocs' = nDocs
           ELSE /\ sess' = [at EXCEPT !.pc = "open", !.manifest = m.manifest,
                                      !.doc = d, !.docAtLoad = d, !.client = c,
                                      !.observer = TRUE]
                /\ nDocs' = nDocs + 1
    /\ UNCHANGED <<notFolder, mf, fsnap, foplog, created, nLogged>>

\* blocksMap.set(path, metadata) on the open document; the observer appends
\* the update to the oplog and the append runs to its end
BlockSet(p, m) ==
    /\ sess.pc = "open" /\ sess.observer /\ nLogged < MaxLogged
    /\ LET r == TxMapSet(sess.doc, sess.client, BlocksId(sess.doc), p, m)
       IN  /\ sess' = [sess EXCEPT !.doc = r.doc]
           /\ foplog' = [exists |-> TRUE,
                         lines |-> Append(foplog.lines, OplogLine(r.update))]
    /\ nLogged' = nLogged + 1
    /\ UNCHANGED <<notFolder, mf, fsnap, created, nDocs>>

\* the cleanup function returned with the project: ydoc.off("update", handler)
CloseProject ==
    /\ sess.pc = "open"
    /\ sess' = [sess EXCEPT !.pc = "closed", !.observer = FALSE]
    /\ UNCHANGED <<notFolder, mf, fsnap, foplog, created, nDocs, nLogged>>

\* saveCrdtProject(directoryHandle, manifest, metadata, ydoc, opCount) with
\* the manifest and document of the open project, every write resolving
SaveProject(opCount) ==
    /\ sess.pc = "open"
    /\ mf' = saveManifest(sess.manifest)
    /\ IF opCount >= checkpointInterval
       THEN /\ fsnap' = [exists |-> TRUE, text |-> Btoa(encodeStateAsUpdate(sess.doc))]
            /\ foplog' = ClearedOplog(foplog)
       ELSE UNCHANGED <<fsnap, foplog>>
    /\ UNCHANGED <<notFolder, sess, created, nDocs, nLogged>>

\* the application renames the project: it changes the name of the manifest
\* it holds and calls saveManifest
RenameProject(name) ==
    /\ sess.pc = "open" /\ sess.manifest.name # name
    /\ sess' = [sess EXCEPT !.manifest.name = name]
    /\ mf' = saveManifest(sess'.manifest)
    /\ UNCHANGED <<notFolder, fsnap, foplog, created, nDocs, nLogged>>

\* createCheckpoint(directoryHandle, ydoc) on the open project, both writes
\* resolving
CheckpointProject ==
    /\ sess.pc = "open" /\ foplog.lines # <<>>
    /\ fsnap' = [exists |-> TRUE, text |-> Btoa(encodeStateAsUpdate(sess.doc))]
    /\ foplog' = ClearedOplog(foplog)
    /\ UNCHANGED <<notFolder, mf, sess, created, nDocs, nLogged>>

\* manifest.json as something outside the program may leave it
DamagedManifest(f, kind) ==
    CASE kind = "missing" -> NoManifest
      [] kind = "notJson" -> [f EXCEPT !.json = FALSE]
      [] kind = "notObject" -> [f EXCEPT !.obj.isObject = FALSE]
      [] kind = "noDocId" -> [f EXCEPT !.obj.notString = {"docId"}]
      [] kind = "noName" -> [f EXCEPT !.obj.notString = {"name"}]
      [] OTHER -> [f EXCEPT !.obj.formatVersion = "0.9.0"]
ManifestDamages == {"missing", "notJson", "notObject", "noDocId", "noName", "oldVersion"}

DamageManifest(kind) ==
    /\ sess.pc # "open" /\ loadManifest(mf).ok
    /\ mf' = DamagedManifest(mf, kind)
    /\ UNCHANGED <<notFolder, fsnap, foplog, sess, created, nDocs, nLogged>>

\* yjs-doc.bin as something outside the program may leave it: deleted, text
\* that is not base64, or bytes that are not an update
DamagedSnapshot(f, kind) ==
    CASE kind = "missing" -> NoFile
      [] kind = "notBase64" -> [f EXCEPT !.text.b64 = FALSE]
      [] OTHER -> [f EXCEPT !.text.bytes.wf = FALSE]
SnapshotDamages == {"missing", "notBase64", "notUpdate"}

DamageSnapshot(kind) ==
    /\ sess.pc # "open" /\ loadSnapshot(fsnap, EmptyDoc).loaded
    /\ fsnap' = DamagedSnapshot(fsnap, kind)
    /\ UNCHANGED <<notFolder, mf, foplog, sess, created, nDocs, nLogged>>

NextFolder ==
    \/ \E id \in DocIds, ok \in BOOLEAN : CreateCrdtProject(id, ok)
    \/ LoadCrdtProject
    \/ \E p \in Paths : BlockSet(p, "foo")
    \/ CloseProject
    \/ \E n \in OpCounts : SaveProject(n)
    \/ RenameProject("Novel2")
    \/ CheckpointProject
    \/ \E k \in ManifestDamages : DamageManifest(k)
    \/ \E k \in SnapshotDamages : DamageSnapshot(k)

SpecFolder == InitFolder /\ [][NextFolder]_vars

\* the snapshot file is there and does not decode
SnapshotCorrupt(f) == f.exists /\ (~f.text.b64 \/ ~f.text.bytes.wf)

\* C11: a load that finds yjs-doc.bin present but undecodable fails with a
\* decode error and returns no document.
C11_CorruptSnapshotFatal ==
    (sess.op = "load" /\ sess.pc \in {"open", "closed", "failed"}
        /\ loadManifest(sess.mfAtLoad).ok
        /\ SnapshotCorrupt(sess.snapAtLoad)) =>
        /\ sess.pc = "failed"
        /\ sess.docAtLoad = EmptyDoc

\* the fields initializeYjsDoc gives a document
DefaultKeys ==
    {"name", "projectId", "createdAt", "updatedAt", "blocks", "characters",
     "settings", "arrangementTracks"}

\* the update of every usable line is part of the integrated state
Reflected(d, lines) ==
    \A i \in 1..Len(lines) :
        GoodLine(lines[i]) =>
            LET u == lines[i].entry.update.bytes
            IN  u.structs \subseteq Items(d) /\ u.ds \subseteq d.ds

\* C12: a load applies the snapshot if there is one and replays the oplog;
\* without a snapshot file it does not fail, the document gets the defaults
\* and the oplog is replayed on them; every oplog entry is reflected in the
\* loaded state.
C12_LoadContract ==
    (sess.op = "load" /\ loadManifest(sess.mfAtLoad).ok) =>
        LET d    == sess.docAtLoad
            snap == sess.snapAtLoad
        IN  /\ (snap.exists /\ ~SnapshotCorrupt(snap)) =>
                  d = replayOplog(sess.logAtLoad,
                                  applyUpdate(EmptyDoc, snap.text.bytes).doc).doc
            /\ ~snap.exists =>
                  /\ sess.pc \in {"open", "closed"}
                  /\ \A k \in DefaultKeys : MapHas(d, RootId, k)
                  /\ TextOf(d, "name") = {sess.mfAtLoad.obj.name}
                  /\ TextOf(d, "projectId") = {created}
            /\ ~SnapshotCorrupt(snap) => Reflected(d, sess.logAtLoad.lines)

\* manifest.json is missing, unparsable, lacks a required string field or
\* is of another format version
ManifestInvalid(f) ==
    \/ ~f.exists \/ ~f.json \/ ~f.obj.isObject
    \/ f.obj.notString \cap ManifestFields # {}
    \/ f.obj.formatVersion # CRDT_FORMAT_VERSION

\* C13: loadCrdtProject on a folder whose manifest is invalid fails with an
\* error, loads no document, attaches no observer and writes no file.
C13_ManifestInvalidFatal ==
    [][(sess'.op = "load" /\ sess' # sess /\ sess.pc # "open" /\ ManifestInvalid(mf)) =>
          /\ sess'.pc = "failed"
          /\ sess'.error = "Invalid or missing manifest"
          /\ sess'.doc = EmptyDoc /\ sess'.client = 0
          /\ ~sess'.observer
          /\ UNCHANGED <<mf, fsnap, foplog>>
      ]_vars

C13_Witness ==
    /\ sess.op = "load" /\ sess.pc = "failed"
    /\ sess.mfAtLoad.exists /\ sess.mfAtLoad.json
    /\ sess.mfAtLoad.obj.formatVersion # CRDT_FORMAT_VERSION
    /\ sess.mfAtLoad = mf /\ sess.snapAtLoad = fsnap /\ sess.logAtLoad = foplog
    /\ foplog.lines # <<>>

\* C14: the docId in manifest.json and in the manifest of every open
\* project is the docId of the creation, whatever was saved, checkpointed
\* and loaded since; the loaded formatVersion is the current one.
C14_DocIdImmutable ==
    created # "" =>
        /\ (mf.exists /\ mf.json /\ mf.obj.isObject /\ "docId" \notin mf.obj.notString) =>
               mf.obj.docId = created
        /\ sess.pc = "open" =>
               /\ sess.manifest.docId = created
               /\ sess.manifest.formatVersion = CRDT_FORMAT_VERSION

C14_Witness ==
    /\ sess.op = "load" /\ sess.pc = "open" /\ nDocs = MaxLoads + 1
    /\ sess.manifest.name = "Novel2" /\ sess.manifest.modifiedAt = "t1"
    /\ sess.manifest.docId = created /\ mf.obj.docId = created
    /\ foplog = [exists |-> TRUE, lines |-> <<>>]
    /\ yjsDocToQuillProject(sess.doc).blocks # {}

\* ------------------------------------------------------------------------
\* Initialize specification: initializeYjsDoc on documents that have fields
\* ------------------------------------------------------------------------
\* fields set in a document before initializeYjsDoc is called on it
MaxFieldSets == 3
\* initializeYjsDoc calls in a row
MaxInits == 2

\* the values a legacy project may give createdAt and updatedAt
Timestamps == {"later", Zero}

InitField ==
    /\ FieldIdle
    /\ MainIdle /\ ReplayIdle /\ MergeIdle /\ FolderIdle /\ ReconcileIdle /\ SyncIdle /\ LateIdle

\* number of items the fields set so far have made
FieldItems == Len(idoc.store[Me])

\* quillProjectToYjsDoc: map.set("createdAt", project.createdAt), and the
\* same for updatedAt
ImportScalar(key, val) ==
    /\ FieldItems < MaxFieldSets
    /\ idoc' = TxMapSet(idoc, Me, RootId, key, val).doc
    /\ nInit' = 0
    /\ UNCHANGED <<notField, ibefore>>

\* quillProjectToYjsDoc on name and projectId: the text is replaced when
\* the key is there, and a new Y.Text is set when it is not
ImportText(key, text) ==
    /\ FieldItems < MaxFieldSets
    /\ idoc' = IF MapHas(idoc, RootId, key)
               THEN LET t == MapGetId(idoc, RootId, key)
                    IN  TxSeqInsert0(TxSeqDeleteAll(idoc, t).doc, Me, t, text).doc
               ELSE TxMapSetText(idoc, Me, RootId, key, text).doc
    /\ nInit' = 0
    /\ UNCHANGED <<notField, ibefore>>

\* quillProjectToYjsDoc on blocks, characters, settings and
\* arrangementTracks of an empty project when the key is not there: a new
\* empty Y.Map or Y.Array is set
ImportContainer(key) ==
    /\ FieldItems < MaxFieldSets
    /\ ~MapHas(idoc, RootId, key)
    /\ idoc' = TxMapSet(idoc, Me, RootId, key,
                        IF key \in {"blocks", "settings"} THEN "YMap" ELSE "YArray").doc
    /\ nInit' = 0
    /\ UNCHANGED <<notField, ibefore>>

\* initializeYjsDoc(ydoc, projectName, projectId)
Initialize ==
    /\ nInit < MaxInits
    /\ ibefore' = idoc
    /\ idoc' = initializeYjsDoc(idoc, Me, ProjectName, DocId)
    /\ nInit' = nInit + 1
    /\ UNCHANGED notField

NextField ==
    \/ \E k \in {"createdAt", "updatedAt"}, v \in Timestamps : ImportScalar(k, v)
    \/ \E k \in {"name", "projectId"} : ImportText(k, "Legacy")
    \/ \E k \in {"blocks", "characters", "settings", "arrangementTracks"} :
           ImportContainer(k)
    \/ Initialize

SpecField == InitField /\ [][NextField]_vars

\* what a reader sees of a field: its item and its value or text
FieldView(d, k) ==
    [id |-> MapGetId(d, RootId, k), val |-> Scalar(d, k), text |-> TextOf(d, k)]

\* C15: initializeYjsDoc leaves every field that is present as it is,
\* whatever its value, and a second call in a row changes nothing.
C15_InitializeIdempotent ==
    /\ nInit > 0 =>
          \A k \in DefaultKeys :
              MapHas(ibefore, RootId, k) => FieldView(idoc, k) = FieldView(ibefore, k)
    /\ nInit = 2 => idoc = ibefore

\* ------------------------------------------------------------------------
\* Reconciler specification: syncBlocksWithFilesystem
\* ------------------------------------------------------------------------
\* syncBlocksWithFilesystem calls
MaxReconciles == 3

\* the content files that can be on disk, in the order of the scan
FileNames == <<"a.md", "b.md", "c.md">>
FilePaths == Range(FileNames)
\* the content files of the model in the order scanDirectory lists them:
\* folders first, then the files by name
ScanOrder == <<"docs/a.md", "docs/b.md">> \o FileNames \o <<"n.txt">>
\* crypto.randomUUID() in call n of the reconciler for a path: an id that
\* no other call returns
randomUUID(n, path) == <<n, path>>

\* getAllFilePaths(await scanDirectory(directoryHandle))
getAllFilePaths(files) == SelectSeq(ScanOrder, LAMBDA p : p \in files)

\* createBlockMetadata(), given the id randomUUID returns
createBlockMetadata(uuid) == [id |-> uuid, tags |-> {}, characterIds |-> {}]

\* obj[key] = value on a plain object
Put(obj, key, value) ==
    [k \in DOMAIN obj \cup {key} |-> IF k = key THEN value ELSE obj[k]]

\* a variant that makes new metadata for a file that already has some
KeptMetadataFresh(blocks, filePath, uuid) == createBlockMetadata(uuid)

\* newBlocks[filePath] = project.blocks[filePath]
KeptMetadata(blocks, filePath, uuid) == blocks[filePath]

\* the first loop of syncBlocksWithFilesystem: [newBlocks, added]; uuid
\* is the number of the call, which makes the ids of its new metadata
RECURSIVE KeepOrCreate(_, _, _, _)
KeepOrCreate(filePaths, blocks, uuid, acc) ==
    IF filePaths = <<>> THEN acc
    ELSE LET filePath == Head(filePaths)
         IN  IF filePath \in DOMAIN blocks
             THEN KeepOrCreate(Tail(filePaths), blocks, uuid,
                      [acc EXCEPT !.newBlocks =
                          Put(@, filePath,
                              KeptMetadata(blocks, filePath, randomUUID(uuid, filePath)))])
             ELSE KeepOrCreate(Tail(filePaths), blocks, uuid,
                      [newBlocks |-> Put(acc.newBlocks, filePath,
                                         createBlockMetadata(randomUUID(uuid, filePath))),
                       added |-> Append(acc.added, filePath)])

\* a variant of the second loop that looks for the keys in the new map
FindRemovedInNew(filePaths, blocks) ==
    SelectSeq(ScanOrder, LAMBDA k : k \in Range(filePaths) /\ k \notin Range(filePaths))

\* the second loop: the keys of project.blocks that are not in filePaths
FindRemoved(filePaths, blocks) ==
    SelectSeq(ScanOrder, LAMBDA k : k \in DOMAIN blocks /\ k \notin Range(filePaths))

\* syncBlocksWithFilesystem, given what scanDirectory reports: the blocks of
\* the returned project, added and removed
syncBlocksWithFilesystem(filePaths, blocks, uuid) ==
    LET r == KeepOrCreate(filePaths, blocks, uuid, [newBlocks |-> NoBlocks, added |-> <<>>])
    IN  [called |-> TRUE, blocks |-> r.newBlocks, added |-> r.added,
         removed |-> FindRemoved(filePaths, blocks),
         filePaths |-> filePaths, input |-> blocks, n |-> 0]

InitReconcile ==
    /\ ReconcileIdle
    /\ MainIdle /\ ReplayIdle /\ MergeIdle /\ FolderIdle /\ FieldIdle /\ SyncIdle /\ LateIdle

\* a content file appears on disk
CreateFile(p) ==
    /\ p \notin disk
    /\ disk' = disk \cup {p}
    /\ UNCHANGED <<notReconcile, proj, res, prev>>

\* a content file disappears from disk
DeleteFile(p) ==
    /\ p \in disk
    /\ disk' = disk \ {p}
    /\ UNCHANGED <<notReconcile, proj, res, prev>>

\* the user tags a block of the project
TagBlock(p, t) ==
    /\ p \in DOMAIN proj /\ proj[p].tags # {t}
    /\ proj' = [proj EXCEPT ![p].tags = {t}]
    /\ UNCHANGED <<notReconcile, disk, res, prev>>

\* syncBlocksWithFilesystem(directoryHandle, project)
Reconcile ==
    /\ res.n < MaxReconciles
    /\ res' = [syncBlocksWithFilesystem(getAllFilePaths(disk), proj, res.n + 1)
                  EXCEPT !.n = res.n + 1]
    /\ prev' = res
    /\ UNCHANGED <<notReconcile, disk, proj>>

\* the caller takes the returned project as its project
AdoptResult ==
    /\ res.called /\ proj # res.blocks
    /\ proj' = res.blocks
    /\ UNCHANGED <<notReconcile, disk, res, prev>>

NextReconcile ==
    \/ \E p \in FilePaths : CreateFile(p)
    \/ \E p \in FilePaths : DeleteFile(p)
    \/ \E p \in FilePaths : TagBlock(p, "foo")
    \/ Reconcile
    \/ AdoptResult

SpecReconcile == InitReconcile /\ [][NextReconcile]_vars

\* C16: for disk paths D and blocks map M the reconciler returns
\* added = D \ keys(M), removed = keys(M) \ D and a map with key set D that
\* keeps the metadata of the paths of M and gives the added paths default
\* metadata with empty tags and characterIds.
C16_ReconcilerPostcondition ==
    res.called =>
        LET D == Range(res.filePaths)
            M == res.input
        IN  /\ Range(res.added) = D \ DOMAIN M
            /\ Len(res.added) = Cardinality(D \ DOMAIN M)
            /\ Range(res.removed) = DOMAIN M \ D
            /\ Len(res.removed) = Cardinality(DOMAIN M \ D)
            /\ DOMAIN res.blocks = D
            /\ \A p \in D \cap DOMAIN M : res.blocks[p] = M[p]
            /\ \A p \in D \ DOMAIN M :
                  res.blocks[p].tags = {} /\ res.blocks[p].characterIds = {}

C16_Witness ==
    /\ res.called
    /\ res.filePaths = <<"a.md", "b.md">>
    /\ DOMAIN res.input = {"a.md", "c.md"}
    /\ res.input["a.md"].tags = {"foo"}
    /\ res.added = <<"b.md">> /\ res.removed = <<"c.md">>
    /\ res.blocks["a.md"] = res.input["a.md"]

\* C17 as stated: the reconciler changes neither its input project nor the
\* disk, gives identical results for identical inputs, and applied to its
\* own output with the same disk contents returns nothing added, nothing
\* removed and the blocks map unchanged.
C17_ReconcilerPure ==
    [][res'.n # res.n =>
          /\ proj' = proj /\ disk' = disk
          /\ (res.called /\ res'.filePaths = res.filePaths /\ res'.input = res.input) =>
                /\ res'.blocks = res.blocks
                /\ res'.added = res.added /\ res'.removed = res.removed
          /\ (res.called /\ res'.filePaths = res.filePaths /\ res'.input = res.blocks) =>
                /\ res'.added = <<>> /\ res'.removed = <<>>
                /\ res'.blocks = res'.input
      ]_vars

\* C17 as amended: identical inputs give identical results except for the
\* ids of the metadata made for the added paths.
C17_ReconcilerPureUpToIds ==
    [][res'.n # res.n =>
          /\ proj' = proj /\ disk' = disk
          /\ (res.called /\ res'.filePaths = res.filePaths /\ res'.input = res.input) =>
                /\ res'.added = res.added /\ res'.removed = res.removed
                /\ DOMAIN res'.blocks = DOMAIN res.blocks
                /\ \A p \in DOMAIN res.blocks :
                      IF p \in DOMAIN res.input THEN res'.blocks[p] = res.blocks[p]
                      ELSE /\ res'.blocks[p].tags = res.blocks[p].tags
                           /\ res'.blocks[p].characterIds = res.blocks[p].characterIds
          /\ (res.called /\ res'.filePaths = res.filePaths /\ res'.input = res.blocks) =>
                /\ res'.added = <<>> /\ res'.removed = <<>>
                /\ res'.blocks = res'.input
      ]_vars

C17_Witness ==
    /\ prev.called /\ res.called
    /\ res.filePaths = prev.filePaths /\ res.input = prev.input
    /\ res.added # <<>> /\ res.added = prev.added
    /\ \E p \in DOMAIN res.input : p \in DOMAIN res.blocks /\ res.input[p].tags # {}
    /\ res.blocks # prev.blocks
    /\ proj = res.input

\* ------------------------------------------------------------------------
\* Sync specification: one SyncService
\* ------------------------------------------------------------------------
\* queueUpdate calls
MaxQueued == 3

\* the update of the n-th queueUpdate call; big: an update of so many bytes
\* that String.fromCharCode(...update) throws a RangeError
QueuedUpdate(n, big) == [wf |-> TRUE, structs |-> {}, ds |-> {}, n |-> n, big |-> big]

InitSync ==
    /\ \E url \in BOOLEAN, online \in BOOLEAN :
          sv = [NewService EXCEPT !.serverUrl = url, !.isOnline = online]
    /\ sinceFlush = <<>> /\ flushed = <<>> /\ submitted = <<>>
    /\ MainIdle /\ ReplayIdle /\ MergeIdle /\ FolderIdle /\ FieldIdle /\ ReconcileIdle
    /\ LateIdle

\* the entry sync() builds for an update
SyncEntry(s, update) == [clientId |-> DeviceId, update |-> Btoa(update)]

\* a variant whose failure path also empties the queue
syncDropOnFailure(s) ==
    IF ~s.serverUrl \/ ~s.isOnline \/ s.isSyncing \/ Len(s.pendingUpdates) = 0
    THEN [sv |-> [s EXCEPT !.tried = FALSE], entries |-> <<>>, done |-> FALSE]
    ELSE IF \E i \in 1..Len(s.pendingUpdates) : s.pendingUpdates[i].big
         THEN [sv |-> [s EXCEPT !.error = TRUE, !.isSyncing = FALSE, !.tried = TRUE,
                                !.pendingUpdates = <<>>, !.pendingOps = 0],
               entries |-> <<>>, done |-> FALSE]
         ELSE [sv |-> [s EXCEPT !.error = FALSE, !.pendingUpdates = <<>>,
                                !.pendingOps = 0, !.lastSyncAt = @ + 1,
                                !.isSyncing = FALSE, !.tried = TRUE],
               entries |-> [i \in 1..Len(s.pendingUpdates) |->
                               SyncEntry(s, s.pendingUpdates[i])],
               done |-> TRUE]

\* SyncService.sync(): [sv, entries, done]; done when the queue was flushed;
\* sv.tried records that the call reached the try block
sync(s) ==
    IF ~s.serverUrl \/ ~s.isOnline
    THEN [sv |-> [s EXCEPT !.tried = FALSE], entries |-> <<>>, done |-> FALSE]
    ELSE IF s.isSyncing
    THEN [sv |-> [s EXCEPT !.tried = FALSE], entries |-> <<>>, done |-> FALSE]
    ELSE IF Len(s.pendingUpdates) = 0
    THEN [sv |-> [s EXCEPT !.tried = FALSE], entries |-> <<>>, done |-> FALSE]
    ELSE IF \E i \in 1..Len(s.pendingUpdates) : s.pendingUpdates[i].big
         THEN [sv |-> [s EXCEPT !.error = TRUE, !.isSyncing = FALSE, !.tried = TRUE],
               entries |-> <<>>, done |-> FALSE]
         ELSE [sv |-> [s EXCEPT !.error = FALSE, !.pendingUpdates = <<>>,
                                !.pendingOps = 0, !.lastSyncAt = @ + 1,
                                !.isSyncing = FALSE, !.tried = TRUE],
               entries |-> [i \in 1..Len(s.pendingUpdates) |->
                               SyncEntry(s, s.pendingUpdates[i])],
               done |-> TRUE]

\* a step of the service that runs sync() on the service s
RunSync(s, op) ==
    LET r == sync(s)
    IN  /\ sv' = [r.sv EXCEPT !.op = op]
        /\ flushed' = flushed \o r.entries
        /\ sinceFlush' = IF r.done THEN <<>> ELSE sinceFlush
        /\ UNCHANGED <<notSync, submitted>>

\* a variant that puts the update at the head of the queue
PushFront(queue, update) == <<update>> \o queue

\* this.pendingUpdates.push(update)
Push(queue, update) == Append(queue, update)

\* queueUpdate(update); with a server it (re)starts the one second timer
QueueUpdate(big) ==
    /\ Len(submitted) < MaxQueued
    /\ LET u == QueuedUpdate(Len(submitted) + 1, big)
           q == Push(sv.pendingUpdates, u)
       IN  /\ sv' = [sv EXCEPT !.pendingUpdates = q, !.pendingOps = Len(q),
                               !.syncInterval =
                                   IF sv.isOnline /\ ~sv.isSyncing /\ sv.serverUrl
                                   THEN "timeout" ELSE @,
                               !.op = "queueUpdate", !.tried = FALSE]
           /\ submitted' = Append(submitted, u)
           /\ sinceFlush' = Append(sinceFlush, u)
    /\ UNCHANGED <<notSync, flushed>>

\* the application calls sync()
Sync == RunSync(sv, "sync")

\* the timer of queueUpdate fires: sync(); the handle stays in syncInterval
TimeoutFires ==
    /\ sv.syncInterval = "timeout"
    /\ RunSync([sv EXCEPT !.syncInterval = "fired"], "timeout")

\* window "online" event: isOnline = true; sync()
OnlineEvent ==
    /\ ~sv.isOnline
    /\ RunSync([sv EXCEPT !.isOnline = TRUE], "online")

\* window "offline" event
OfflineEvent ==
    /\ sv.isOnline
    /\ sv' = [sv EXCEPT !.isOnline = FALSE, !.op = "offline", !.tried = FALSE]
    /\ UNCHANGED <<notSync, sinceFlush, flushed, submitted>>

\* startPeriodicSync(intervalMs)
StartPeriodicSync ==
    /\ sv' = [sv EXCEPT !.syncInterval = "interval", !.op = "start", !.tried = FALSE]
    /\ UNCHANGED <<notSync, sinceFlush, flushed, submitted>>

\* the interval of startPeriodicSync ticks
IntervalTick ==
    /\ sv.syncInterval = "interval"
    /\ IF sv.isOnline /\ Len(sv.pendingUpdates) > 0
       THEN RunSync(sv, "interval")
       ELSE /\ sv' = [sv EXCEPT !.op = "interval", !.tried = FALSE]
            /\ UNCHANGED <<notSync, sinceFlush, flushed, submitted>>

\* stopPeriodicSync(): the service s after it
stopPeriodicSync(s) == [s EXCEPT !.syncInterval = "null"]

StopPeriodicSync ==
    /\ sv' = [stopPeriodicSync(sv) EXCEPT !.op = "stop", !.tried = FALSE]
    /\ UNCHANGED <<notSync, sinceFlush, flushed, submitted>>

\* destroy(): stopPeriodicSync(); this.pendingUpdates = []
Destroy ==
    /\ sv' = [stopPeriodicSync(sv) EXCEPT !.pendingUpdates = <<>>, !.op = "destroy",
                                          !.destroyed = TRUE, !.tried = FALSE]
    /\ UNCHANGED <<notSync, sinceFlush, flushed, submitted>>

NextSync ==
    \/ \E big \in BOOLEAN : QueueUpdate(big)
    \/ Sync
    \/ TimeoutFires
    \/ OnlineEvent
    \/ OfflineEvent
    \/ StartPeriodicSync
    \/ IntervalTick
    \/ StopPeriodicSync
    \/ Destroy

SpecSync == InitSync /\ [][NextSync]_vars

\* C18: on a service built without serverUrl, as loadCrdtProject and
\* createCrdtProject build it, sync() called while online leaves the queue
\* empty and pendingOps = 0.
C18_FlushClearsQueue ==
    (sv.op = "sync" /\ ~sv.serverUrl /\ sv.isOnline) =>
        sv.pendingUpdates = <<>> /\ sv.pendingOps = 0

\* the updates of a sequence of entries
UpdatesOf(entries) == [i \in 1..Len(entries) |-> Atob(entries[i].update).bytes]

\* C19: the queue holds the updates queued since the last successful flush
\* in the order of the queueUpdate calls, and the flushed entries followed
\* by the queue are the submitted updates in their order: none dropped,
\* duplicated or reordered.
C19_SubmissionOrder ==
    ~sv.destroyed =>
        /\ sv.pendingUpdates = sinceFlush
        /\ UpdatesOf(flushed) \o sv.pendingUpdates = submitted

C19_Witness ==
    /\ ~sv.destroyed
    /\ Len(flushed) = 2 /\ Len(sv.pendingUpdates) = 1 /\ Len(submitted) = MaxQueued
    /\ sv.lastSyncAt = 1
    /\ ~sv.isOnline

\* C20: after the online event that follows updates queued while offline,
\* isOnline is true and, unless the flush it attempts fails, the queued
\* updates have been flushed.
C20_AutoFlushOnReconnect ==
    (sv.op = "online" /\ ~sv.error) =>
        sv.isOnline /\ sv.pendingUpdates = <<>>

\* the steps that call sync()
SyncOps == {"sync", "timeout", "online", "interval"}

\* C21: a call of sync() that fails records the error, leaves isSyncing
\* false and leaves the queue as the queueUpdate calls built it; a call of
\* sync() made by any trigger while the service has a server, is online and
\* holds a non-empty queue attempts the flush, after a failure too;
\* queueUpdate in that situation schedules the timer that calls sync(); and
\* no step of the service changes the document or the oplog and snapshot
\* files.
C21_FailureIsolatedAndRetried ==
    /\ [](/\ (sv.op \in SyncOps /\ sv.tried /\ sv.error /\ ~sv.destroyed) =>
                (~sv.isSyncing /\ sv.pendingUpdates # <<>>
                    /\ sv.pendingUpdates = sinceFlush)
          /\ (sv.op \in SyncOps /\ sv.serverUrl /\ sv.isOnline
                 /\ sv.pendingUpdates # <<>>) =>
                (sv.tried /\ sv.error)
          /\ (sv.op = "queueUpdate" /\ sv.serverUrl /\ sv.isOnline) =>
                sv.syncInterval = "timeout")
    /\ [][UNCHANGED notSync]_vars

\* a failed flush retried by an explicit sync() after the timer's flush
C21_Witness ==
    /\ sv.op = "sync" /\ sv.tried /\ sv.error /\ ~sv.isSyncing
    /\ sv.syncInterval = "fired"
    /\ Len(sv.pendingUpdates) = 2 /\ sv.pendingUpdates[1].big
    /\ flushed # <<>>
    /\ ~sv.destroyed

\* C22: after destroy() the service accepts nothing: its queue stays empty
\* and no timer is scheduled; and a closed project has no oplog observer.
C22_ClosedIsTerminal ==
    /\ sv.destroyed => (sv.pendingUpdates = <<>> /\ sv.syncInterval = "null")
    /\ sess.pc = "closed" => ~sess.observer

\* C27: the reported pendingOps is the length of the queue.
C27_PendingOpsIsQueueLength == sv.pendingOps = Len(sv.pendingUpdates)

\* ------------------------------------------------------------------------
\* Migration specification: migrateToCrdtFormat on a legacy project folder
\* ------------------------------------------------------------------------
DOCS_FOLDER == "docs"

\* the content files a legacy folder of the model may hold
LegacyFiles == {"a.md", "b.md", "n.txt", "docs/a.md"}

\* filePath.startsWith(`${DOCS_FOLDER}/`)
InDocsFolder(filePath) == filePath \in {"docs/a.md", "docs/b.md"}

\* `${DOCS_FOLDER}/${filePath}` for a markdown file outside the folder
DocsPath(filePath) == IF filePath = "a.md" THEN "docs/a.md" ELSE "docs/b.md"

\* findMarkdownFiles(tree): the paths that end with ".md", in scan order
findMarkdownFiles(files) == SelectSeq(getAllFilePaths(files), LAMBDA p : p # "n.txt")

\* several updates of one transaction as one update
MergeUpdates(us) ==
    [wf |-> TRUE, structs |-> UNION {us[i].structs : i \in 1..Len(us)},
     ds |-> UNION {us[i].ds : i \in 1..Len(us)}]

\* a variant that inserts the text without deleting the old one
ReplaceTextNoDelete(d, c, key, text) ==
    LET r == TxSeqInsert0(d, c, MapGetId(d, RootId, key), text)
    IN  [doc |-> r.doc, updates |-> <<r.update>>]

\* quillProjectToYjsDoc on name and projectId: [doc, updates]
ReplaceText(d, c, key, text) ==
    IF MapHas(d, RootId, key)
    THEN LET t  == MapGetId(d, RootId, key)
             r1 == TxSeqDeleteAll(d, t)
             r2 == TxSeqInsert0(r1.doc, c, t, text)
         IN  [doc |-> r2.doc, updates |-> <<r1.update, r2.update>>]
    ELSE LET r == TxMapSetText(d, c, RootId, key, text)
         IN  [doc |-> r.doc, updates |-> <<r.update>>]

\* for each entry, ymap.set(key, value)
RECURSIVE SetAll(_, _, _, _, _)
SetAll(d, c, parent, entries, updates) ==
    IF entries = <<>> THEN [doc |-> d, updates |-> updates]
    ELSE LET r == TxMapSet(d, c, parent, Head(entries)[1], Head(entries)[2])
         IN  SetAll(r.doc, c, parent, Tail(entries), Append(updates, r.update))

\* quillProjectToYjsDoc on blocks and settings: the map is cleared and
\* filled, or a new map is filled and set
ReplaceMap(d, c, key, entries) ==
    IF MapHas(d, RootId, key)
    THEN LET r1 == TxMapClear(d, MapGetId(d, RootId, key))
         IN  SetAll(r1.doc, c, MapGetId(d, RootId, key), entries, <<r1.update>>)
    ELSE LET r1 == TxMapSet(d, c, RootId, key, "YMap")
             r2 == SetAll(r1.doc, c, NextId(d, c), entries, <<r1.update>>)
         IN  [doc |-> r2.doc, updates |-> <<MergeUpdates(r2.updates)>>]

\* yarray.insert(0, elems): no item for no element
InsertAll(d, c, parent, elems) ==
    IF elems = <<>> THEN [doc |-> d, update |-> NoUpdate]
    ELSE TxSeqInsert0(d, c, parent, elems)

\* quillProjectToYjsDoc on characters and arrangementTracks
ReplaceArray(d, c, key, elems) ==
    IF MapHas(d, RootId, key)
    THEN LET r1 == TxSeqDeleteAll(d, MapGetId(d, RootId, key))
             r2 == InsertAll(r1.doc, c, MapGetId(d, RootId, key), elems)
         IN  [doc |-> r2.doc, updates |-> <<r1.update, r2.update>>]
    ELSE LET r1 == TxMapSet(d, c, RootId, key, "YArray")
             r2 == InsertAll(r1.doc, c, NextId(d, c), elems)
         IN  [doc |-> r2.doc, updates |-> <<MergeUpdates(<<r1.update, r2.update>>)>>]

\* the entries of project.blocks as Object.entries lists them
BlockEntries(blocks) ==
    LET ks == SelectSeq(ScanOrder, LAMBDA k : k \in DOMAIN blocks)
    IN  [i \in 1..Len(ks) |-> <<ks[i], blocks[ks[i]]>>]

\* what was done so far followed by the transactions r
Then(acc, r) == [doc |-> r.doc, updates |-> acc.updates \o r.updates]

\* map.set(key, value) on the project map as [doc, updates]
SetScalar(d, c, key, value) ==
    [doc |-> TxMapSet(d, c, RootId, key, value).doc,
     updates |-> <<TxMapSet(d, c, RootId, key, value).update>>]

\* quillProjectToYjsDoc(ydoc, project) by the client c: [doc, updates], the
\* updates being those of its transactions in order; each set below holds
\* the one document the statements so far have made
quillProjectToYjsDoc(d, c, project) ==
    LET s1 == {ReplaceText(d, c, "name", project.name)}
        s2 == {Then(a, ReplaceText(a.doc, c, "projectId", project.projectId)) : a \in s1}
        s3 == {Then(a, SetScalar(a.doc, c, "createdAt", project.createdAt)) : a \in s2}
        s4 == {Then(a, SetScalar(a.doc, c, "updatedAt", project.updatedAt)) : a \in s3}
        s5 == {Then(a, ReplaceMap(a.doc, c, "blocks", BlockEntries(project.blocks))) :
                  a \in s4}
        s6 == {Then(a, ReplaceArray(a.doc, c, "characters", project.characters)) : a \in s5}
        s7 == {Then(a, ReplaceMap(a.doc, c, "settings", project.settings)) : a \in s6}
        s8 == {Then(a, ReplaceArray(a.doc, c, "arrangementTracks",
                                    project.arrangementTracks)) : a \in s7}
    IN  CHOOSE r \in s8 : TRUE

\* a legacy project whose blocks are those of the files, with their tags
LegacyProject(files, tags, createdAt, rich) ==
    [name |-> ProjectName, projectId |-> "legacy-id",
     createdAt |-> createdAt, updatedAt |-> "later",
     blocks |-> [p \in files |-> [id |-> <<0, p>>, tags |-> tags[p], characterIds |-> {}]],
     characters |-> IF rich THEN <<"c1", "c2">> ELSE <<>>,
     settings |-> IF rich THEN << <<"theme", "dark">> >> ELSE <<>>,
     arrangementTracks |-> IF rich THEN <<"t1">> ELSE <<>>]

InitMigrate ==
    /\ \E files \in SUBSET LegacyFiles, createdAt \in Timestamps, rich \in BOOLEAN :
          \E tagged \in SUBSET (files \ {"b.md"}) :
              /\ legacy = LegacyProject(files,
                                        [p \in files |-> IF p \in tagged THEN {"foo"} ELSE {}],
                                        createdAt, rich)
              /\ gdisk = [p \in files |-> p]
              /\ mig = [NoMigration EXCEPT !.pc = "start", !.disk0 = [p \in files |-> p]]
    /\ FolderIdle
    /\ MainIdle /\ ReplayIdle /\ MergeIdle /\ FieldIdle /\ ReconcileIdle /\ SyncIdle
    /\ SaverIdle /\ WatcherIdle

\* migrateToCrdtFormat up to the return of createCrdtProject, which throws
\* when its snapshot cannot be written
MigrateCreate(docId, snapshotOk) ==
    /\ mig.pc = "start"
    /\ CreateCrdtProject(docId, snapshotOk)

\* the oplog file after the appends the observer starts for the updates: in
\* order, or, the appends being started in the same tick on a folder
\* without oplog.jsonl, the line of the last one alone
AppendedAll(f, updates, raced) ==
    LET us == SelectSeq(updates, HasContent)
        ev == [i \in 1..Len(us) |-> [update |-> us[i], origin |-> "local"]]
    IN  IF raced /\ us # <<>> /\ ~f.exists
        THEN Observed(f, <<ev[Len(ev)]>>)
        ELSE Observed(f, ev)

\* quillProjectToYjsDoc(crdt.ydoc, {...}), then migrateFilesToDocsFolder up
\* to its for loop: createDirectory, scanDirectory, findMarkdownFiles
MigrateImport(raced) ==
    /\ mig.pc = "start" /\ sess.pc = "open"
    /\ LET r == quillProjectToYjsDoc(sess.doc, sess.client, legacy)
       IN  /\ sess' = [sess EXCEPT !.doc = r.doc]
           /\ foplog' = AppendedAll(foplog, r.updates, raced)
    /\ mig' = [mig EXCEPT !.pc = "moving", !.queue = findMarkdownFiles(DOMAIN gdisk)]
    /\ UNCHANGED <<notMigrate, mf, fsnap, created, nDocs, nLogged, legacy, gdisk>>

\* how the body of the for loop can end for a file outside docs/
MoveOutcomes == {"moved", "readFailed", "writeFailed", "writeFailedEmpty", "deleteFailed"}

\* delete obj[key]
Remove(obj, key) == [k \in DOMAIN obj \ {key} |-> obj[k]]

\* the body of the for loop for filePath: the disk after it. A write that
\* fails leaves no file, or the empty file getFileHandle({create}) made
MoveFile(d, filePath, outcome) ==
    IF InDocsFolder(filePath) THEN d
    ELSE LET newPath == DocsPath(filePath)
         IN  CASE outcome = "readFailed" -> d
               [] outcome = "writeFailed" -> d
               [] outcome = "writeFailedEmpty" ->
                      IF newPath \in DOMAIN d THEN d ELSE Put(d, newPath, "")
               [] outcome = "deleteFailed" -> Put(d, newPath, d[filePath])
               [] outcome = "moved" -> Remove(Put(d, newPath, d[filePath]), filePath)

\* a variant of the loop that gives up at the first failure
AfterMoveAbort(rest, outcome) == IF outcome = "moved" THEN rest ELSE <<>>

\* the files the loop goes on with after a file: the catch is inside the loop
AfterMove(rest, outcome) == rest

\* one pass of the for loop of migrateFilesToDocsFolder
MoveNext(outcome) ==
    /\ mig.pc = "moving" /\ mig.queue # <<>>
    /\ LET filePath == Head(mig.queue)
       IN  IF InDocsFolder(filePath)
           THEN /\ outcome = "moved"
                /\ mig' = [mig EXCEPT !.queue = Tail(@)]
                /\ gdisk' = gdisk
           ELSE /\ mig' = [mig EXCEPT !.queue = AfterMove(Tail(@), outcome),
                                      !.moves = Append(@, [path |-> filePath,
                                                           outcome |-> outcome])]
                /\ gdisk' = MoveFile(gdisk, filePath, outcome)
    /\ UNCHANGED <<notMigrate, folderVars, legacy>>

\* saveSnapshot(directoryHandle, crdt.ydoc) after the loop, and the return
MigrateSave(snapshotOk) ==
    /\ mig.pc = "moving" /\ mig.queue = <<>>
    /\ IF snapshotOk
       THEN /\ fsnap' = [exists |-> TRUE, text |-> Btoa(encodeStateAsUpdate(sess.doc))]
            /\ mig' = [mig EXCEPT !.pc = "done"]
       ELSE /\ fsnap' = fsnap
            /\ mig' = [mig EXCEPT !.pc = "failed"]
    /\ UNCHANGED <<notMigrate, mf, foplog, sess, created, nDocs, nLogged, legacy, gdisk>>

\* project.blocks of the project migrateToCrdtFormat returns
BlocksRecord(entries) ==
    [p \in {e[1] : e \in entries} |-> (CHOOSE e \in entries : e[1] = p)[2]]

\* syncBlocksWithFilesystem(directoryHandle, project) on the returned project
ReconcileMigrated ==
    /\ mig.pc = "done"
    /\ mig' = [mig EXCEPT !.pc = "reconciled",
                          !.rec = syncBlocksWithFilesystem(
                                      getAllFilePaths(DOMAIN gdisk),
                                      BlocksRecord(yjsDocToQuillProject(sess.doc).blocks), 1)]
    /\ UNCHANGED <<notMigrate, folderVars, legacy, gdisk>>

NextMigrate ==
    \/ \E ok \in BOOLEAN : MigrateCreate(DocId, ok)
    \/ \E raced \in BOOLEAN : MigrateImport(raced)
    \/ \E outcome \in MoveOutcomes : MoveNext(outcome)
    \/ \E ok \in BOOLEAN : MigrateSave(ok)
    \/ ReconcileMigrated

SpecMigrate == InitMigrate /\ [][NextMigrate]_vars

\* what yjsDocToQuillProject reads out of a document that holds exactly the
\* values of a project
ProjectView(project) ==
    [name |-> {project.name}, projectId |-> {project.projectId},
     createdAt |-> project.createdAt, updatedAt |-> project.updatedAt,
     blocks |-> {<<p, project.blocks[p]>> : p \in DOMAIN project.blocks},
     settings |-> Range(project.settings),
     characters |-> IF project.characters = <<>> THEN {} ELSE {project.characters},
     arrangementTracks |-> IF project.arrangementTracks = <<>> THEN {}
                           ELSE {project.arrangementTracks}]

\* C23: after migrateToCrdtFormat the document holds exactly the values of
\* the legacy project in every field, and a document loaded from the files
\* reads the same.
C23_MigrationReplacesFields ==
    mig.pc \in {"done", "reconciled"} =>
        /\ yjsDocToQuillProject(sess.doc) = ProjectView(legacy)
        /\ yjsDocToQuillProject(loadYjsDoc(fsnap, foplog, Loader, sess.manifest.name,
                                           sess.manifest.docId)) = ProjectView(legacy)
        /\ yjsDocToQuillProject(loadSnapshot(fsnap, EmptyDoc).doc) = ProjectView(legacy)

C23_Witness ==
    /\ mig.pc = "done"
    /\ \E p \in DOMAIN legacy.blocks : legacy.blocks[p].tags = {"foo"}
    /\ legacy.characters # <<>> /\ legacy.createdAt = Zero
    /\ Len(foplog.lines) = 1
    /\ yjsDocToQuillProject(sess.doc).blocks # {}

\* the paths of the moves made so far
MovedPaths == {mig.moves[i].path : i \in 1..Len(mig.moves)}

\* C24: a file whose move succeeded is at docs/<path> with its content and
\* no longer at its path; a file that was under docs/ is not moved; and
\* whatever the outcome of each move, every markdown file outside docs/ is
\* taken in turn and the migration goes on to its snapshot.
C24_FilesMovedBestEffort ==
    mig.pc \in {"moving", "done", "reconciled", "failed"} =>
        /\ \A i \in 1..Len(mig.moves) :
              mig.moves[i].outcome = "moved" =>
                  /\ mig.moves[i].path \notin DOMAIN gdisk
                  /\ DocsPath(mig.moves[i].path) \in DOMAIN gdisk
                  /\ gdisk[DocsPath(mig.moves[i].path)] = mig.disk0[mig.moves[i].path]
        /\ \A p \in DOMAIN mig.disk0 :
              InDocsFolder(p) => p \notin MovedPaths /\ p \in DOMAIN gdisk
        /\ \A p \in DOMAIN mig.disk0 :
              (p # "n.txt" /\ ~InDocsFolder(p)) => p \in MovedPaths \cup Range(mig.queue)
        /\ mig.pc # "moving" => mig.queue = <<>>

C24_Witness ==
    /\ mig.pc = "done"
    /\ Len(mig.moves) = 2
    /\ mig.moves[1].outcome = "writeFailedEmpty" /\ mig.moves[2].outcome = "moved"
    /\ "docs/a.md" \in DOMAIN mig.disk0

\* C25: after the migration every key of the blocks map is the path of a
\* content file on disk, and the reconciler run on the returned project
\* reports no removed block and keeps the metadata of every legacy block.
C25_BlockKeysAlignedAfterMigration ==
    /\ mig.pc \in {"done", "reconciled"} =>
          \A e \in yjsDocToQuillProject(sess.doc).blocks : e[1] \in DOMAIN gdisk
    /\ mig.pc = "reconciled" =>
          /\ mig.rec.removed = <<>>
          /\ \A p \in DOMAIN legacy.blocks :
                \E q \in DOMAIN mig.rec.blocks : mig.rec.blocks[q] = legacy.blocks[p]

\* ------------------------------------------------------------------------
\* Auto-saver specification: one createAutoSaver
\* ------------------------------------------------------------------------
\* save() calls; the content of the n-th call is n
MaxSaves == 3

InitSaver ==
    /\ SaverIdle
    /\ MainIdle /\ ReplayIdle /\ MergeIdle /\ FolderIdle /\ FieldIdle /\ ReconcileIdle
    /\ SyncIdle /\ MigrateIdle /\ WatcherIdle

\* doSave() up to its await of writeTextFile: the saver s after it
doSave(s) ==
    IF s.pendingContent = NoContent \/ s.isSaving THEN s
    ELSE [s EXCEPT !.writing = s.pendingContent, !.pendingContent = NoContent,
                   !.isSaving = TRUE]

\* save(content)
Save ==
    /\ sa.latest < MaxSaves
    /\ sa' = [sa EXCEPT !.pendingContent = sa.latest + 1, !.timeoutId = TRUE,
                        !.latest = sa.latest + 1, !.op = "save", !.dropped = FALSE]
    /\ UNCHANGED notSaver

\* the debounce timer fires: timeoutId = null; doSave()
TimerFires ==
    /\ sa.timeoutId
    /\ sa' = [doSave([sa EXCEPT !.timeoutId = FALSE]) EXCEPT !.op = "timer"]
    /\ UNCHANGED notSaver

\* flush(): the timer is cleared; doSave()
Flush ==
    /\ sa' = [doSave([sa EXCEPT !.timeoutId = FALSE]) EXCEPT !.op = "flush"]
    /\ UNCHANGED notSaver

\* cancel()
Cancel ==
    /\ sa' = [sa EXCEPT !.timeoutId = FALSE, !.pendingContent = NoContent,
                        !.op = "cancel", !.dropped = TRUE]
    /\ UNCHANGED notSaver

\* writeTextFile resolves: the finally block
WriteOk ==
    /\ sa.isSaving
    /\ sa' = [sa EXCEPT !.file = sa.writing, !.writing = NoContent, !.isSaving = FALSE,
                        !.op = "written"]
    /\ UNCHANGED notSaver

\* the catch block: pendingContent = contentToSave
Requeued(pendingContent, contentToSave) == contentToSave

\* writeTextFile rejects: the catch and finally blocks
WriteFails ==
    /\ sa.isSaving
    /\ sa' = [sa EXCEPT !.pendingContent = Requeued(sa.pendingContent, sa.writing),
                        !.writing = NoContent, !.isSaving = FALSE, !.op = "failed",
                        !.dropped = TRUE]
    /\ UNCHANGED notSaver

NextSaver ==
    \/ Save
    \/ TimerFires
    \/ Flush
    \/ Cancel
    \/ WriteOk
    \/ WriteFails

SpecSaver == InitSaver /\ [][NextSaver]_vars

\* timers fire and writes end
SpecSaverLive ==
    InitSaver /\ [][NextSaver]_vars /\ WF_vars(TimerFires) /\ WF_vars(WriteOk \/ WriteFails)

\* isPending()
isPending(s) == s.pendingContent # NoContent \/ s.isSaving

\* C28: the pending content is never older than the most recent content
\* given to save(): a failed write does not put its content over a newer one.
C28_PendingNeverOlder ==
    sa.pendingContent # NoContent => sa.pendingContent = sa.latest

\* C29: unless a cancel() or a failed write came after the last save(), the
\* saver ends with the content of the last save() in the file and nothing
\* pending.
C29_LatestEventuallyWritten ==
    <>[](sa.dropped \/ (~isPending(sa) /\ sa.file = sa.latest))

\* ------------------------------------------------------------------------
\* Watcher specification: one createFileWatcher
\* ------------------------------------------------------------------------
\* start() calls
MaxStarts == 2
\* changes made to each content file from outside
MaxTouch == 2

WatchedFiles == {"a.md", "b.md"}

InitWatcher ==
    /\ fw = NewWatcher
    /\ wfiles = [p \in WatchedFiles |-> 0]
    /\ MainIdle /\ ReplayIdle /\ MergeIdle /\ FolderIdle /\ FieldIdle /\ ReconcileIdle
    /\ SyncIdle /\ MigrateIdle /\ SaverIdle

\* buildSnapshot(): lastModified of each file that has one
buildSnapshot(files) == [p \in {q \in DOMAIN files : files[q] # 0} |-> files[p]]

\* compareSnapshots(oldSnapshot, newSnapshot): the paths added, modified or
\* deleted
compareSnapshots(oldSnapshot, newSnapshot) ==
    {p \in DOMAIN newSnapshot : p \notin DOMAIN oldSnapshot \/ oldSnapshot[p] # newSnapshot[p]}
        \cup {p \in DOMAIN oldSnapshot : p \notin DOMAIN newSnapshot}

\* timeoutId = setTimeout(poll, interval): a timer the old id named, if it
\* is still live, goes on without a name
setTimeout(w) ==
    [w EXCEPT !.timeoutId = "live",
              !.orphans = IF w.timeoutId = "live" THEN @ + 1 ELSE @]

\* a content file is written from outside
Touch(p) ==
    /\ wfiles[p] < MaxTouch
    /\ wfiles' = [wfiles EXCEPT ![p] = @ + 1]
    /\ UNCHANGED <<notWatcher, fw>>

\* start() up to its await of buildSnapshot
Start ==
    /\ ~fw.isRunning /\ fw.nStarts < MaxStarts
    /\ fw' = [fw EXCEPT !.isRunning = TRUE, !.starting = @ + 1, !.stopped = FALSE,
                        !.heard = 0, !.nStarts = @ + 1]
    /\ UNCHANGED <<notWatcher, wfiles>>

\* start() after the await: the snapshot is stored and the timer is set
StartSnapshotDone ==
    /\ fw.starting > 0
    /\ fw' = setTimeout([fw EXCEPT !.lastSnapshot = buildSnapshot(wfiles),
                                   !.starting = @ - 1])
    /\ UNCHANGED <<notWatcher, wfiles>>

\* the timer timeoutId names fires: poll() up to its await
PollStarts ==
    /\ fw.timeoutId = "live"
    /\ fw' = [fw EXCEPT !.timeoutId = "fired",
                        !.polling = IF fw.isRunning THEN @ + 1 ELSE @]
    /\ UNCHANGED <<notWatcher, wfiles>>

\* a timer without a name fires: poll() up to its await
OrphanPollStarts ==
    /\ fw.orphans > 0
    /\ fw' = [fw EXCEPT !.orphans = @ - 1,
                        !.polling = IF fw.isRunning THEN @ + 1 ELSE @]
    /\ UNCHANGED <<notWatcher, wfiles>>

\* poll() after checkForChanges: onChanges when there are changes, and the
\* next timer when the watcher is running
PollDone ==
    /\ fw.polling > 0
    /\ LET new     == buildSnapshot(wfiles)
           changes == compareSnapshots(fw.lastSnapshot, new)
           w       == [fw EXCEPT !.lastSnapshot = new, !.polling = @ - 1,
                                 !.heard = IF changes # {} THEN @ + 1 ELSE @]
       IN  fw' = IF fw.isRunning THEN setTimeout(w) ELSE w
    /\ UNCHANGED <<notWatcher, wfiles>>

\* stop()
Stop ==
    /\ fw' = [fw EXCEPT !.isRunning = FALSE, !.timeoutId = "null", !.stopped = TRUE,
                        !.heard = 0]
    /\ UNCHANGED <<notWatcher, wfiles>>

\* checkNow(): checkForChanges
CheckNow ==
    /\ fw' = [fw EXCEPT !.lastSnapshot = buildSnapshot(wfiles)]
    /\ UNCHANGED <<notWatcher, wfiles>>

NextWatcher ==
    \/ \E p \in WatchedFiles : Touch(p)
    \/ Start
    \/ StartSnapshotDone
    \/ PollStarts
    \/ OrphanPollStarts
    \/ PollDone
    \/ Stop
    \/ CheckNow

SpecWatcher == InitWatcher /\ [][NextWatcher]_vars

\* C30: after stop(), until the next start(), onChanges is not called and
\* no poll timer is scheduled.
C30_StoppedWatcherSilent ==
    fw.stopped => (fw.heard = 0 /\ fw.timeoutId # "live" /\ fw.orphans = 0)

====
